---------------------------- MODULE Spec2Model ----------------------------
(***************************************************************************)
(* A model of the Core DNA chatbot backend (chatbot-backend/):             *)
(*   - the grounded-response assemblers of smart_demo_server.py and        *)
(*     production_server.py (confidence-gated answer policy),              *)
(*   - the keyword index, search_content and chat_endpoint of              *)
(*     smart_demo_server.py, with the reload of the corpus,                *)
(*   - generate_rag_response and chat_endpoint of production_server.py,    *)
(*   - the crawl loop of src/scraper/web_scraper.py, create_text_chunks of *)
(*     src/scraper/content_processor.py and get_document_context of        *)
(*     src/rag/retriever.py.                                               *)
(* Strings are TLA+ strings; Python's str operations (lower, strip, in,    *)
(* slicing, replace) are modelled character by character.  Confidences and *)
(* scores are integers in units of 1/1000000 (0.55 is 550000).             *)
(***************************************************************************)
EXTENDS Integers, Sequences, FiniteSets, TLC

VARIABLES
    which,            \* which assembler produced resp: "none", "demo", "prod"
    user_message,     \* the assembler's first argument
    context_blocks,   \* the assembler's second argument
    match_score,      \* the assembler's third argument (micro-units)
    resp,             \* the dict the assembler returned
    started,          \* the startup event of the server has run
    scraped_data,     \* global scraped_data: the documents loaded
    indexed_content,  \* global indexed_content: term -> list of postings
    query,            \* q of the last GET /search
    max_results,      \* limit of the last GET /search
    results,          \* what search_content returned for it
    search_response,  \* the "results" the endpoint reported for it
    chat_request,     \* the ChatRequest of the last POST /chat
    chat_response,    \* what the chat endpoint returned for it
    previous_chat,    \* history: message and structured response of the chat before it
    load_pc,          \* load_scraped_data: "idle", or "indexing" inside create_keyword_index
    load_pos,         \* the document create_keyword_index handles next
    loads,            \* how many times load_scraped_data was called
    before,           \* history: scraped_data and indexed_content when the last load began
    observed,         \* history: what the last search_content call read
    clean_pc,         \* how many times clean_content was applied: 0, 1, 2
    clean_input,      \* the raw excerpt
    clean_output,     \* clean_content(clean_input)
    clean_twice,      \* clean_content(clean_output)
    openai_client,    \* production_server: the global openai_client is set (not None)
    vector_store,     \* production_server: the global vector_store is set (not None)
    context_chunks,   \* generate_rag_response: its second argument
    completion,       \* generate_rag_response: what chat.completions.create did
    rag_result,       \* generate_rag_response: what it returned
    prod_results,     \* production chat_endpoint: what vector_store.query returned
    crawl_pc,         \* scrape_all_pages: "idle", "crawling" inside the while loop, "returned"
    site,             \* the web site crawled: what each url serves, and its sitemap
    max_pages,        \* CoreDNAScraper.max_pages
    to_visit,         \* CoreDNAScraper.to_visit
    visited_urls,     \* CoreDNAScraper.visited_urls
    scraped_pages,    \* CoreDNAScraper.scraped_data
    fetch_log,        \* history: the urls get_page_content was called with, in order
    calls,            \* how many times scrape_all_pages was called on the scraper
    chunk_pc,         \* create_text_chunks: "idle", "docs" (for loop), "split" (while loop), "done"
    processed_docs,   \* ContentProcessor.processed_docs
    max_chunk_size,   \* create_text_chunks: its first argument
    overlap,          \* create_text_chunks: its second argument
    text_chunks,      \* create_text_chunks: the list chunks
    doc_idx,          \* the document the for loop handles next
    doc_words,        \* local words of the document that is split
    chunk_id,         \* local chunk_id of the while loop
    start_idx,        \* local start_idx of the while loop
    iterations,       \* history: iterations of the while loop for the current document
    store_results,    \* get_document_context: what vector_store.query returned
    max_context_length, \* get_document_context: its second argument
    context_built,    \* get_document_context has returned
    document_context  \* get_document_context: the string it returned

assembler_vars == <<which, user_message, context_blocks, match_score, resp>>
search_vars == <<started, scraped_data, indexed_content, query, max_results, results, search_response>>
chat_vars == <<chat_request, chat_response, previous_chat>>
load_vars == <<load_pc, load_pos, loads, before, observed>>
clean_vars == <<clean_pc, clean_input, clean_output, clean_twice>>
rag_vars == <<openai_client, vector_store, context_chunks, completion, rag_result, prod_results>>
crawl_vars == <<crawl_pc, site, max_pages, to_visit, visited_urls, scraped_pages, fetch_log, calls>>
chunk_vars == <<chunk_pc, processed_docs, max_chunk_size, overlap, text_chunks, doc_idx, doc_words, chunk_id, start_idx, iterations>>
retriever_vars == <<store_results, max_context_length, context_built, document_context>>
offline_vars == <<crawl_vars, chunk_vars, retriever_vars>>
vars == <<which, user_message, context_blocks, match_score, resp,
          started, scraped_data, indexed_content, query, max_results, results, search_response,
          chat_request, chat_response, previous_chat,
          load_pc, load_pos, loads, before, observed,
          clean_pc, clean_input, clean_output, clean_twice,
          openai_client, vector_store, context_chunks, completion, rag_result, prod_results,
          crawl_pc, site, max_pages, to_visit, visited_urls, scraped_pages, fetch_log, calls,
          chunk_pc, processed_docs, max_chunk_size, overlap, text_chunks, doc_idx, doc_words,
          chunk_id, start_idx,
          iterations, store_results, max_context_length, context_built, document_context>>

-----------------------------------------------------------------------------
(* Python str helpers *)

Min(a, b) == IF a < b THEN a ELSE b

\* s[:n]
Take(s, n) == SubSeq(s, 1, Min(n, Len(s)))

\* s[i:] with a 0-based i
Drop(s, i) == SubSeq(s, i + 1, Len(s))

\* the 1-based i-th character of s
Char(s, i) == SubSeq(s, i, i)

\* k in s  (substring test)
Contains(s, k) == \E i \in 1..(Len(s) - Len(k) + 1) : SubSeq(s, i, i + Len(k) - 1) = k

\* s.startswith(k), s.endswith(k)
StartsWith(s, k) == Len(k) <= Len(s) /\ SubSeq(s, 1, Len(k)) = k
EndsWith(s, k) == Len(k) <= Len(s) /\ SubSeq(s, Len(s) - Len(k) + 1, Len(s)) = k

UpperChars == <<"A","B","C","D","E","F","G","H","I","J","K","L","M",
                "N","O","P","Q","R","S","T","U","V","W","X","Y","Z">>
LowerChars == <<"a","b","c","d","e","f","g","h","i","j","k","l","m",
                "n","o","p","q","r","s","t","u","v","w","x","y","z">>
DigitChars == {"0","1","2","3","4","5","6","7","8","9"}

IsUpper(c) == \E i \in 1..26 : UpperChars[i] = c
IsLower(c) == \E i \in 1..26 : LowerChars[i] = c
IsDigit(c) == c \in DigitChars
\* \s of the re module, on the characters the model uses
IsSpace(c) == c \in {" ", "\n", "\t", "\r"}
\* \w of the re module
IsWordChar(c) == IsUpper(c) \/ IsLower(c) \/ IsDigit(c) \/ c = "_"

LowerChar(c) == IF IsUpper(c) THEN LowerChars[CHOOSE i \in 1..26 : UpperChars[i] = c] ELSE c

\* s.lower(), halving the string (every character is mapped by LowerChar)
RECURSIVE Lower(_)
Lower(s) ==
    IF Len(s) <= 1 THEN LowerChar(s)
    ELSE Lower(SubSeq(s, 1, Len(s) \div 2)) \o Lower(SubSeq(s, Len(s) \div 2 + 1, Len(s)))

\* the least element of a non-empty set of integers
MinOf(S) == CHOOSE p \in S : \A q \in S : p <= q
\* the greatest element of a non-empty set of integers
MaxOf(S) == CHOOSE p \in S : \A q \in S : q <= p

\* s.strip(): from the first to the last character that is no whitespace
Strip(s) ==
    LET ps == {p \in 1..Len(s) : ~IsSpace(Char(s, p))}
    IN IF ps = {} THEN "" ELSE SubSeq(s, MinOf(ps), MaxOf(ps))

\* least 1-based p >= from with s[p..] starting with k, or 0 when there is none
Find(s, k, from) ==
    LET ps == {p \in from..(Len(s) - Len(k) + 1) : SubSeq(s, p, p + Len(k) - 1) = k}
    IN IF ps = {} THEN 0 ELSE MinOf(ps)

\* s.replace(old, new) for a non-empty old: leftmost, non-overlapping
RECURSIVE Replace(_, _, _)
Replace(s, old, new) ==
    LET p == Find(s, old, 1)
    IN IF p = 0 THEN s
       ELSE SubSeq(s, 1, p - 1) \o new \o Replace(Drop(s, p + Len(old) - 1), old, new)

\* any(word in s for word in words)
AnyIn(words, s) == \E i \in 1..Len(words) : Contains(s, words[i])

-----------------------------------------------------------------------------
(* Policy constants, in units of 1/1000000 *)

\* 0.55: below it the evidence is too weak to answer
LOW_CONFIDENCE == 550000

\* a faulty variant of the upper threshold: the comparison made strict (score > 0.72)
HIGH_CONFIDENCE_exclusive == 720000 + 1

\* 0.72: from it on a full answer (or lead capture) is given
HIGH_CONFIDENCE == 720000
\* confidence of the canned greeting / "what is core dna" answers (1.0)
CANNED_CONFIDENCE == 1000000
\* confidence of the topic-shortcut answers (0.9)
SHORTCUT_CONFIDENCE == 900000

\* a faulty variant of the no-context confidence: 70 written for 0.7
NO_CONTEXT_CONFIDENCE_percent == 70 * 1000000

\* confidence the demo assembler reports when there are no context blocks (0.7)
NO_CONTEXT_CONFIDENCE == 700000

lead_triggers == <<"demo", "quote", "pricing", "contact", "sales", "budget", "timeline", "implementation">>

lead_fields == <<"name", "email", "company", "use_case">>

Response(text, citations, confidence, actions) ==
    [text |-> text, citations |-> citations, confidence |-> confidence, actions |-> actions]

-----------------------------------------------------------------------------
(* production_server.py: assemble_grounded_response *)

\* the citation of one block: the first 150 characters of the raw excerpt
prod_citation(block) ==
    [title |-> block.title,
     url   |-> block.url,
     quote |-> IF Len(block.excerpt) > 150 THEN Take(block.excerpt, 150) \o "..." ELSE block.excerpt]

\* a faulty variant of the citations: only the top two blocks are cited
prod_citations_top_two(blocks) == [i \in 1..Min(2, Len(blocks)) |-> prod_citation(blocks[i])]

\* citations of context_blocks[:3]
prod_citations(blocks) == [i \in 1..Min(3, Len(blocks)) |-> prod_citation(blocks[i])]

\* the answer text of the high-confidence branch, by intent keyword
prod_full_text(user_lower, blocks) ==
    LET top_context == blocks[1] IN
    IF AnyIn(<<"what is", "what are", "define", "explain">>, user_lower)
    THEN "Based on Core DNA's documentation: " \o top_context.excerpt
         \o (IF Len(blocks) > 1
             THEN " Additionally, " \o Take(blocks[2].excerpt, 150) \o "..."
             ELSE "")
    ELSE IF AnyIn(<<"how", "steps", "process">>, user_lower)
    THEN "According to our documentation: " \o top_context.excerpt
    ELSE IF AnyIn(<<"feature", "capability", "can">>, user_lower)
    THEN "Core DNA offers: " \o top_context.excerpt
         \o (IF Len(blocks) > 1
             THEN " We also provide: " \o Take(blocks[2].excerpt, 100) \o "..."
             ELSE "")
    ELSE "From our documentation on " \o top_context.title \o ": " \o top_context.excerpt

\* lines 132-209; user_lower is user_message.lower()
prod_rules(user_lower, blocks, retrieval_confidence) ==
    IF retrieval_confidence < LOW_CONFIDENCE
    THEN Response("I don't have sufficient information about that topic in my Core DNA knowledge base. Could you be more specific about what aspect of Core DNA's platform you're interested in?",
                  <<>>, retrieval_confidence, <<[type |-> "clarify"]>>)
    ELSE IF blocks = <<>>
    THEN Response("I don't have specific information about that topic. Could you ask about Core DNA's e-commerce platform, content management features, or integrations?",
                  <<>>, retrieval_confidence, <<[type |-> "clarify"]>>)
    ELSE IF AnyIn(lead_triggers, user_lower) /\ retrieval_confidence >= HIGH_CONFIDENCE
    THEN LET top_context == blocks[1] IN
         Response("Based on our documentation: " \o Take(top_context.excerpt, 200)
                      \o "... To discuss your specific needs, I'd like to connect you with our team.",
                  <<[title |-> top_context.title, url |-> top_context.url,
                     quote |-> Take(top_context.excerpt, 100) \o "..."]>>,
                  retrieval_confidence,
                  <<[type |-> "collect_lead", fields |-> lead_fields]>>)
    ELSE IF retrieval_confidence >= HIGH_CONFIDENCE
    THEN Response(prod_full_text(user_lower, blocks), prod_citations(blocks),
                  retrieval_confidence, <<[type |-> "none"]>>)
    ELSE Response("Based on our documentation: " \o Take(blocks[1].excerpt, 150)
                      \o "... Would you like more specific information about any particular aspect?",
                  Take(prod_citations(blocks), 1),
                  retrieval_confidence, <<[type |-> "clarify"]>>)

prod_assembler(message, blocks, retrieval_confidence) ==
    prod_rules(Lower(message), blocks, retrieval_confidence)

-----------------------------------------------------------------------------
(* smart_demo_server.py: clean_content.  Each re.sub / re.split / re.search *)
(* of the function is an operator computing what the pattern matches.       *)

\* the character the module writes for the bullet U+2022 of the pattern [-<bullet>]
BulletChar == "*"

\* first index >= i of s that holds no whitespace (Len(s)+1 when there is none)
RECURSIVE SkipSpaces(_, _)
SkipSpaces(s, i) == IF i <= Len(s) /\ IsSpace(Char(s, i)) THEN SkipSpaces(s, i + 1) ELSE i

\* first index >= i of s that holds no digit
RECURSIVE SkipDigits(_, _)
SkipDigits(s, i) == IF i <= Len(s) /\ IsDigit(Char(s, i)) THEN SkipDigits(s, i + 1) ELSE i

\* re.sub(start + '.*?' + stop, '', s, flags=re.DOTALL); also the form without
\* DOTALL when stop is "\n" (the lazy match ends at the first newline either way)
RECURSIVE sub_lazy_span(_, _, _)
sub_lazy_span(s, start, stop) ==
    LET p == Find(s, start, 1)
        q == Find(s, stop, p + Len(start))
    IN IF p = 0 \/ q = 0 THEN s
       ELSE SubSeq(s, 1, p - 1) \o sub_lazy_span(Drop(s, q + Len(stop) - 1), start, stop)

\* re.sub(r'Content:\s*', '', s)
RECURSIVE sub_content_marker(_)
sub_content_marker(s) ==
    LET p == Find(s, "Content:", 1)
    IN IF p = 0 THEN s
       ELSE SubSeq(s, 1, p - 1) \o sub_content_marker(Drop(s, SkipSpaces(s, p + 8) - 1))

\* ^ under re.MULTILINE at the 1-based position i
AtLineStart(s, i) == i = 1 \/ Char(s, i - 1) = "\n"

\* where a match of ^\s*[-<bullet>]\s* (re.MULTILINE) that starts at i ends
\* (the position after it), or 0 when none starts at i
bullet_match_end(s, i) ==
    LET j == SkipSpaces(s, i)
    IN IF AtLineStart(s, i) /\ j <= Len(s) /\ Char(s, j) \in {"-", BulletChar}
       THEN SkipSpaces(s, j + 1)
       ELSE 0

\* re.sub(r'^\s*[-<bullet>]\s*', '', s, flags=re.MULTILINE), scanning from position i
RECURSIVE sub_bullets(_, _)
sub_bullets(s, i) ==
    LET ps == {p \in i..Len(s) : bullet_match_end(s, p) # 0}
    IN IF ps = {} THEN SubSeq(s, i, Len(s))
       ELSE SubSeq(s, i, MinOf(ps) - 1) \o sub_bullets(s, bullet_match_end(s, MinOf(ps)))

\* where a match of ^\s*\d+\.\s* (re.MULTILINE) that starts at i ends, or 0
numbering_match_end(s, i) ==
    LET j == SkipSpaces(s, i)
        d == SkipDigits(s, j)
    IN IF AtLineStart(s, i) /\ d > j /\ d <= Len(s) /\ Char(s, d) = "."
       THEN SkipSpaces(s, d + 1)
       ELSE 0

\* re.sub(r'^\s*\d+\.\s*', '', s, flags=re.MULTILINE), scanning from position i
RECURSIVE sub_numbering(_, _)
sub_numbering(s, i) ==
    LET ps == {p \in i..Len(s) : numbering_match_end(s, p) # 0}
    IN IF ps = {} THEN SubSeq(s, i, Len(s))
       ELSE SubSeq(s, i, MinOf(ps) - 1) \o sub_numbering(s, numbering_match_end(s, MinOf(ps)))

\* re.sub(r'Core dna[^\n]*\n', '', s, flags=re.IGNORECASE)
RECURSIVE sub_core_dna_lines(_)
sub_core_dna_lines(s) ==
    LET p == Find(Lower(s), "core dna", 1)
        q == Find(s, "\n", p + 8)
    IN IF p = 0 \/ q = 0 THEN s
       ELSE SubSeq(s, 1, p - 1) \o sub_core_dna_lines(Drop(s, q))

\* re.sub(r'Implementation Example.*$', '', s, flags=re.DOTALL)
sub_implementation_example(s) ==
    LET p == Find(s, "Implementation Example", 1)
    IN IF p = 0 THEN s ELSE SubSeq(s, 1, p - 1)

\* the lookahead (?=\n[A-Z]|\n\n|$) at the 1-based position q of s
SectionEndsAt(s, q) ==
    \/ q = Len(s) + 1
    \/ q = Len(s) /\ Char(s, q) = "\n"
    \/ q < Len(s) /\ Char(s, q) = "\n" /\ (IsUpper(Char(s, q + 1)) \/ Char(s, q + 1) = "\n")

\* re.sub(r'Practical Use Case:.*?(?=\n[A-Z]|\n\n|$)', '', s, flags=re.DOTALL)
RECURSIVE sub_practical_use_case(_)
sub_practical_use_case(s) ==
    LET p == Find(s, "Practical Use Case:", 1)
        q == MinOf({e \in (p + 19)..(Len(s) + 1) : SectionEndsAt(s, e)})
    IN IF p = 0 THEN s
       ELSE SubSeq(s, 1, p - 1) \o sub_practical_use_case(Drop(s, q - 1))

\* the positions of the newlines in the whitespace run s[i..j-1]
NewlinesIn(s, i, j) == {n \in i..(j - 1) : Char(s, n) = "\n"}

\* where a match of \n\s*\n\s*\n+ that starts at i ends, or 0: the whitespace run
\* from a newline at i must hold three newlines or more, and the match runs up
\* to the last of them
blank_lines_match_end(s, i) ==
    LET nl == NewlinesIn(s, i, SkipSpaces(s, i))
    IN IF Char(s, i) = "\n" /\ Cardinality(nl) >= 3 THEN MaxOf(nl) + 1 ELSE 0

\* re.sub(r'\n\s*\n\s*\n+', '\n\n', s), scanning from position i
RECURSIVE sub_blank_lines(_, _)
sub_blank_lines(s, i) ==
    LET ps == {p \in i..Len(s) : blank_lines_match_end(s, p) # 0}
    IN IF ps = {} THEN SubSeq(s, i, Len(s))
       ELSE SubSeq(s, i, MinOf(ps) - 1) \o "\n\n"
                \o sub_blank_lines(s, blank_lines_match_end(s, MinOf(ps)))

\* re.sub(r'\s+', ' ', s), scanning from position i: one step per whitespace run
RECURSIVE sub_whitespace(_, _)
sub_whitespace(s, i) ==
    LET ps == {p \in i..Len(s) : IsSpace(Char(s, p))}
    IN IF ps = {} THEN SubSeq(s, i, Len(s))
       ELSE SubSeq(s, i, MinOf(ps) - 1) \o " " \o sub_whitespace(s, SkipSpaces(s, MinOf(ps)))

\* lines 157-174: the content after every pattern removal, in the code's order
strip_boilerplate(content) ==
    LET c1 == sub_lazy_span(content, "Page Title:", "\n\n")
        c2 == sub_lazy_span(c1, "Key Sections:", "\n\n")
        c3 == sub_content_marker(c2)
        c4 == sub_lazy_span(c3, "On this page:", "\n")
        c5 == sub_bullets(c4, 1)
        c6 == sub_numbering(c5, 1)
        c7 == sub_core_dna_lines(c6)
        c8 == sub_implementation_example(c7)
        c9 == sub_practical_use_case(c8)
    IN sub_whitespace(sub_blank_lines(c9, 1), 1)

IsTerminator(c) == c \in {".", "!", "?"}

\* first index >= i of s that holds no sentence terminator
RECURSIVE SkipTerminators(_, _)
SkipTerminators(s, i) == IF i <= Len(s) /\ IsTerminator(Char(s, i)) THEN SkipTerminators(s, i + 1) ELSE i

\* re.split(r'[.!?]+', s)
RECURSIVE split_sentences(_)
split_sentences(s) ==
    LET ps == {p \in 1..Len(s) : IsTerminator(Char(s, p))}
        p == MinOf(ps)
    IN IF ps = {} THEN <<s>>
       ELSE <<SubSeq(s, 1, p - 1)>> \o split_sentences(Drop(s, SkipTerminators(s, p) - 1))

\* s.split(sep)
RECURSIVE split_on(_, _)
split_on(s, sep) ==
    LET p == Find(s, sep, 1)
    IN IF p = 0 THEN <<s>>
       ELSE <<SubSeq(s, 1, p - 1)>> \o split_on(Drop(s, p + Len(sep) - 1), sep)

\* sep.join(parts)
RECURSIVE join(_, _)
join(sep, parts) ==
    IF parts = <<>> THEN ""
    ELSE IF Len(parts) = 1 THEN parts[1]
    ELSE parts[1] \o sep \o join(sep, Tail(parts))

skipped_prefixes == <<"Page Title", "Key Sections", "On this page", "Implementation Example", "No FAQ">>

informative_words == <<"provides", "offers", "enables", "helps", "allows", "supports", "platform",
                       "solution", "business", "customer", "ecommerce", "commerce", "management",
                       "integration", "feature">>

\* re.match(r'^[A-Z\s]+$', sentence): an all-caps heading
IsAllCaps(sentence) ==
    /\ sentence # ""
    /\ \A i \in 1..Len(sentence) : IsUpper(Char(sentence, i)) \/ IsSpace(Char(sentence, i))

\* a faulty variant of the test: short sentences pass too
is_useful_any_length(sentence) ==
    /\ ~\E i \in 1..Len(skipped_prefixes) : StartsWith(sentence, skipped_prefixes[i])
    /\ ~IsAllCaps(sentence)
    /\ ~EndsWith(sentence, "Core dna")
    /\ AnyIn(informative_words, Lower(sentence))

\* lines 183-187: the test a stripped sentence passes to be kept
is_useful(sentence) ==
    /\ Len(sentence) > 30
    /\ ~\E i \in 1..Len(skipped_prefixes) : StartsWith(sentence, skipped_prefixes[i])
    /\ ~IsAllCaps(sentence)
    /\ ~EndsWith(sentence, "Core dna")
    /\ AnyIn(informative_words, Lower(sentence))

\* lines 177-188: the useful sentences, stripped, in their order
useful_sentences(content) ==
    LET sentences == split_sentences(content)
        stripped == [i \in 1..Len(sentences) |-> Strip(sentences[i])]
    IN SelectSeq(stripped, is_useful)

\* s[:n] + ('...' if len(s) > n else '')
Ellipsize(s, n) == Take(s, n) \o (IF Len(s) > n THEN "..." ELSE "")

\* re.search(r'Description\s+(.*?)(?=\n[A-Z]|\n\n|$)', content, re.DOTALL | re.IGNORECASE):
\* whether it matches, and group(1) of the leftmost match
description_match(content) ==
    LET low == Lower(content)
        ps == {p \in 1..(Len(content) - 11) :
                  SubSeq(low, p, p + 10) = "description" /\ IsSpace(Char(content, p + 11))}
        p == MinOf(ps)
        b == SkipSpaces(content, p + 11)
        e == MinOf({q \in b..(Len(content) + 1) : SectionEndsAt(content, q)})
    IN IF ps = {} THEN [found |-> FALSE, group |-> ""]
       ELSE [found |-> TRUE, group |-> SubSeq(content, b, e - 1)]

\* [p.strip() for p in content.split('\n\n') if len(p.strip()) > 50]
long_paragraphs(content) ==
    LET parts == split_on(content, "\n\n")
        stripped == [i \in 1..Len(parts) |-> Strip(parts[i])]
        IsLong(par) == Len(par) > 50
    IN SelectSeq(stripped, IsLong)

\* lines 190-208: the result, from the stripped content, its useful sentences,
\* its Description match and its paragraphs of more than 50 characters
clean_result(content, useful, desc, paragraphs) ==
    IF useful # <<>> THEN
        IF EndsWith(join(". ", Take(useful, 3)), ".")
        THEN join(". ", Take(useful, 3))
        ELSE join(". ", Take(useful, 3)) \o "."
    ELSE IF desc.found THEN Ellipsize(Strip(desc.group), 300)
    ELSE IF paragraphs # <<>> THEN Ellipsize(paragraphs[1], 300)
    ELSE IF Len(content) > 200 THEN Take(content, 200) \o "..." ELSE content

\* lines 176-208, on the content left by the pattern removals
clean_stripped(content) ==
    clean_result(content, useful_sentences(content), description_match(content),
                 long_paragraphs(content))

clean_content(raw) ==
    IF raw = "" THEN "" ELSE clean_stripped(strip_boilerplate(raw))

-----------------------------------------------------------------------------
(* smart_demo_server.py: assemble_grounded_response *)

greetings == {"hello", "hi", "hey", "how are you", "how are you?", "good morning", "good afternoon"}

greeting_text == "Hello! I'm the Core DNA assistant. I can help you learn about Core DNA's comprehensive digital commerce platform, including e-commerce features, content management, integrations, pricing, and more. What would you like to know about Core DNA?"

what_is_text == "Core DNA is a comprehensive digital commerce platform that enables businesses to create exceptional customer experiences. The platform combines e-commerce capabilities, content management, customer engagement tools, and seamless integrations to help businesses grow their online presence and sales. Core DNA serves businesses of all sizes with flexible, scalable solutions for modern digital commerce."

feature_text == "Core DNA offers a comprehensive suite of digital commerce features including: e-commerce platform with advanced shopping cart functionality, content management system, customer engagement tools, payment gateway integrations, inventory management, order processing, analytics and reporting, multi-channel selling capabilities, and seamless third-party integrations. The platform is designed to help businesses of all sizes create exceptional online customer experiences."

pricing_text == "Core DNA offers flexible pricing plans designed to accommodate businesses of all sizes. The platform provides scalable solutions with various pricing tiers based on your specific needs, transaction volume, and required features. For detailed pricing information and to get a custom quote tailored to your business requirements, I recommend contacting Core DNA's sales team directly. They can provide accurate pricing based on your specific use case."

ecommerce_text == "Core DNA provides a powerful e-commerce platform that includes advanced shopping cart functionality, secure payment processing, inventory management, order tracking, customer account management, and multi-channel selling capabilities. The platform supports various payment gateways, offers flexible product catalog management, and provides comprehensive analytics to help businesses optimize their online sales performance."

integration_text == "Core DNA offers extensive integration capabilities with over 100+ third-party applications and services. The platform provides APIs for custom integrations and supports connections with popular CRM systems, marketing tools, payment gateways, shipping providers, analytics platforms, and accounting software. This allows businesses to create a seamless ecosystem that connects all their essential business tools."

no_information_text == "I don't have specific information about that topic in my Core DNA knowledge base. Could you ask about Core DNA's e-commerce platform, content management features, pricing plans, or integrations?"

no_context_text == "Let me help you learn about Core DNA. You can ask me about e-commerce features, content management, pricing plans, integrations, or specific platform capabilities. What interests you most?"

feature_keywords == <<"feature", "capability", "function", "what does", "what can">>
pricing_keywords == <<"price", "cost", "pricing", "plan", "subscription">>
ecommerce_keywords == <<"ecommerce", "e-commerce", "online store", "shop", "selling">>
integration_keywords == <<"integration", "connect", "api", "third party">>

\* lines 224-241: a greeting, or a "what is core dna" question
is_canned_intent(user_lower) ==
    \/ user_lower \in greetings
    \/ Contains(user_lower, "what is core dna")
    \/ Contains(user_lower, "what is coredna")

\* lines 243-277: the query holds a keyword of a topic bucket
is_topic_shortcut(user_lower) ==
    \/ AnyIn(feature_keywords, user_lower)
    \/ AnyIn(pricing_keywords, user_lower)
    \/ AnyIn(ecommerce_keywords, user_lower)
    \/ AnyIn(integration_keywords, user_lower)

\* the citation of one block (lines 321-326): title with the brand respelled,
\* the cleaned excerpt cut to 100 characters
cut_quote(clean_quote) ==
    IF Len(clean_quote) > 100 THEN Take(clean_quote, 100) \o "..." ELSE clean_quote

\* a faulty variant of the citation of one block: the url read from the title
demo_citation_title_as_url(block) ==
    [title |-> Replace(block.title, "Core dna", "Core DNA"),
     url   |-> block.title,
     quote |-> cut_quote(clean_content(block.excerpt))]

demo_citation(block) ==
    [title |-> Replace(block.title, "Core dna", "Core DNA"),
     url   |-> block.url,
     quote |-> cut_quote(clean_content(block.excerpt))]

\* citations of context_blocks[:3] (lines 320-326)
demo_citations(blocks) == [i \in 1..Min(3, Len(blocks)) |-> demo_citation(blocks[i])]

\* lines 346-349: the pricing answer, with the advice to contact sales unless
\* the text already says "contact"
with_contact_advice(response_text) ==
    IF ~Contains(Lower(response_text), "contact")
    THEN response_text \o " For detailed pricing information and custom quotes, I recommend contacting Core DNA's sales team directly."
    ELSE response_text

\* lines 331-353: the answer text of the high-confidence branch, by intent keyword;
\* cleaned_content is the cleaned excerpt of the top block
demo_full_text(user_lower, blocks, cleaned_content) ==
    IF AnyIn(<<"what is", "what are", "define", "explain">>, user_lower)
    THEN "Based on Core DNA's documentation: " \o cleaned_content
         \o (IF Len(blocks) > 1 /\ Len(cleaned_content) < 200
             THEN " Additionally, " \o Take(clean_content(blocks[2].excerpt), 150) \o "..."
             ELSE "")
    ELSE IF AnyIn(<<"how", "steps", "process", "setup", "configure">>, user_lower)
    THEN "According to Core DNA's documentation: " \o cleaned_content
    ELSE IF AnyIn(<<"feature", "capability", "function", "can", "does">>, user_lower)
    THEN "Core DNA provides: " \o cleaned_content
         \o (IF Len(blocks) > 1 /\ Len(cleaned_content) < 200
             THEN " The platform also offers: " \o Take(clean_content(blocks[2].excerpt), 150) \o "..."
             ELSE "")
    ELSE IF AnyIn(<<"price", "cost", "pricing", "plan">>, user_lower)
    THEN with_contact_advice("Regarding Core DNA pricing: " \o cleaned_content)
    ELSE "From Core DNA's documentation: " \o cleaned_content

\* lines 296-370: the answer built from a non-empty context_blocks;
\* cleaned_content is clean_content(context_blocks[0]['excerpt'])
demo_grounded(message, user_lower, blocks, score, cleaned_content) ==
    IF AnyIn(lead_triggers, user_lower) /\ score >= HIGH_CONFIDENCE
    THEN Response("Regarding " \o Lower(message) \o ": " \o Take(cleaned_content, 200)
                      \o "... Demo mode cannot access live tools. To discuss pricing and get a demo, please contact Core DNA directly.",
                  <<[title |-> Replace(blocks[1].title, "Core dna", "Core DNA"),
                     url   |-> blocks[1].url,
                     quote |-> Take(cleaned_content, 100) \o "..."]>>,
                  score,
                  <<[type |-> "collect_lead", fields |-> lead_fields]>>)
    ELSE IF score >= HIGH_CONFIDENCE
    THEN Response(demo_full_text(user_lower, blocks, cleaned_content), demo_citations(blocks),
                  score, <<[type |-> "none"]>>)
    ELSE Response("Based on Core DNA's documentation: " \o Take(cleaned_content, 200)
                      \o "... Would you like more specific information about any particular aspect?",
                  Take(demo_citations(blocks), 1),
                  score, <<[type |-> "clarify"]>>)

\* lines 224-294, then the grounded answer; user_lower is user_message.lower().strip()
demo_rules(message, user_lower, blocks, score) ==
    IF user_lower \in greetings
    THEN Response(greeting_text, <<>>, CANNED_CONFIDENCE, <<[type |-> "none"]>>)
    ELSE IF Contains(user_lower, "what is core dna") \/ Contains(user_lower, "what is coredna")
    THEN Response(what_is_text, <<>>, CANNED_CONFIDENCE, <<[type |-> "none"]>>)
    ELSE IF AnyIn(feature_keywords, user_lower)
    THEN Response(feature_text, <<>>, SHORTCUT_CONFIDENCE, <<[type |-> "none"]>>)
    ELSE IF AnyIn(pricing_keywords, user_lower)
    THEN Response(pricing_text, <<>>, SHORTCUT_CONFIDENCE,
                  <<[type |-> "collect_lead", fields |-> lead_fields]>>)
    ELSE IF AnyIn(ecommerce_keywords, user_lower)
    THEN Response(ecommerce_text, <<>>, SHORTCUT_CONFIDENCE, <<[type |-> "none"]>>)
    ELSE IF AnyIn(integration_keywords, user_lower)
    THEN Response(integration_text, <<>>, SHORTCUT_CONFIDENCE, <<[type |-> "none"]>>)
    ELSE IF score < LOW_CONFIDENCE /\ blocks = <<>>
    THEN Response(no_information_text, <<>>, score, <<[type |-> "clarify"]>>)
    ELSE IF blocks = <<>>
    THEN Response(no_context_text, <<>>, NO_CONTEXT_CONFIDENCE, <<[type |-> "clarify"]>>)
    ELSE demo_grounded(message, user_lower, blocks, score, clean_content(blocks[1].excerpt))

demo_assembler(message, blocks, score) ==
    demo_rules(message, Strip(Lower(message)), blocks, score)

-----------------------------------------------------------------------------
(* smart_demo_server.py: the keyword index and search_content *)

\* 'score': 1.0 of a posting, and the 1.0 search_content adds per posting
POSTING_SCORE == 1000000
MATCH_INCREMENT == 1000000

\* re.findall(r'\b\w+\b', s): the maximal runs of word characters, left to right
WordStart(s, i) ==
    LET ps == {p \in i..Len(s) : IsWordChar(Char(s, p))}
    IN IF ps = {} THEN 0 ELSE MinOf(ps)

WordEnd(s, p) ==
    LET qs == {q \in p..Len(s) : ~IsWordChar(Char(s, q))}
    IN IF qs = {} THEN Len(s) ELSE MinOf(qs) - 1

RECURSIVE findall_from(_, _)
findall_from(s, p) ==
    IF p = 0 THEN <<>>
    ELSE <<SubSeq(s, p, WordEnd(s, p))>> \o findall_from(s, WordStart(s, WordEnd(s, p) + 1))

findall_words(s) == findall_from(s, WordStart(s, 1))

\* a faulty variant of the length filter: words of 3 characters are indexed too
is_meaningful_from_three(word) == Len(word) >= 3

\* len(word) > 3
is_meaningful(word) == Len(word) > 3

\* the words of one document that create_keyword_index files a posting under
index_words(doc) == SelectSeq(findall_words(Lower(doc.title \o " " \o doc.content)), is_meaningful)

posting(doc) ==
    [url |-> doc.url, title |-> doc.title, content |-> Take(doc.content, 500), score |-> POSTING_SCORE]

\* one posting per occurrence of term among the document's words
doc_postings(doc, words, term) ==
    [i \in 1..Cardinality({k \in DOMAIN words : words[k] = term}) |-> posting(doc)]

\* the postings appended under term for the documents of data, in corpus order
RECURSIVE new_postings(_, _)
new_postings(data, term) ==
    IF data = <<>> THEN <<>>
    ELSE doc_postings(Head(data), index_words(Head(data)), term) \o new_postings(Tail(data), term)

index_terms(data) ==
    UNION {{index_words(data[i])[k] : k \in DOMAIN index_words(data[i])} : i \in DOMAIN data}

\* create_keyword_index(): appends to the index that exists (it is never cleared)
create_keyword_index(indexed, data) ==
    [term \in (DOMAIN indexed) \cup index_terms(data) |->
        (IF term \in DOMAIN indexed THEN indexed[term] ELSE <<>>) \o new_postings(data, term)]

\* the postings search_content visits: for each query word in turn, its postings in index order
RECURSIVE visited_postings(_, _)
visited_postings(indexed, words) ==
    IF words = <<>> THEN <<>>
    ELSE (IF Head(words) \in DOMAIN indexed THEN indexed[Head(words)] ELSE <<>>)
         \o visited_postings(indexed, Tail(words))

AppendNew(seq, x) == IF \E i \in DOMAIN seq : seq[i] = x THEN seq ELSE Append(seq, x)

\* the keys of doc_scores in insertion order (order of first visit)
RECURSIVE doc_ids(_)
doc_ids(hits) ==
    IF hits = <<>> THEN <<>>
    ELSE AppendNew(doc_ids(SubSeq(hits, 1, Len(hits) - 1)), hits[Len(hits)].url)

\* doc_scores[doc_id]: 1.0 for every posting visited
doc_scores(hits, doc_id) == Cardinality({i \in DOMAIN hits : hits[i].url = doc_id}) * MATCH_INCREMENT

\* doc_info[doc_id]: the posting visited last
doc_info(hits, doc_id) == hits[MaxOf({i \in DOMAIN hits : hits[i].url = doc_id})]

\* the place of ids[i] in sorted(doc_scores.items(), key=score, reverse=True), a stable sort
sorted_position(hits, ids, i) ==
    1 + Cardinality({j \in DOMAIN ids : doc_scores(hits, ids[j]) > doc_scores(hits, ids[i])})
      + Cardinality({j \in 1..(i - 1) : doc_scores(hits, ids[j]) = doc_scores(hits, ids[i])})

sorted_docs(hits, ids) ==
    [p \in 1..Len(ids) |-> ids[CHOOSE i \in DOMAIN ids : sorted_position(hits, ids, i) = p]]

\* a faulty variant of the slice: nothing is cut off
SliceTo_uncut(seq, n) == seq

\* seq[:n] for any integer n
SliceTo(seq, n) ==
    IF n >= 0 THEN Take(seq, n)
    ELSE IF Len(seq) + n > 0 THEN Take(seq, Len(seq) + n) ELSE <<>>

\* one result: the posting with relevance_score = score / len(query_words)
search_result(hits, doc_id, n_words) ==
    [url |-> doc_info(hits, doc_id).url,
     title |-> doc_info(hits, doc_id).title,
     content |-> doc_info(hits, doc_id).content,
     score |-> doc_info(hits, doc_id).score,
     relevance_score |-> doc_scores(hits, doc_id) \div n_words]

top_results(hits, top, n_words) ==
    [i \in 1..Len(top) |-> search_result(hits, top[i], n_words)]

search_hits(hits, n_words, limit) ==
    top_results(hits, SliceTo(sorted_docs(hits, doc_ids(hits)), limit), n_words)

search_words(indexed, query_words, limit) ==
    IF query_words = <<>> THEN <<>>
    ELSE search_hits(visited_postings(indexed, query_words), Len(query_words), limit)

search_content(scraped, indexed, q, limit) ==
    IF scraped = <<>> THEN <<>>
    ELSE search_words(indexed, findall_words(Lower(q)), limit)

\* the "results" list of GET /search
search_endpoint(found) ==
    [i \in 1..Len(found) |->
        [title |-> found[i].title,
         url |-> found[i].url,
         content_preview |-> Take(found[i].content, 200) \o "...",
         relevance_score |-> found[i].relevance_score]]

-----------------------------------------------------------------------------
(* smart_demo_server.py: chat_endpoint *)

\* lines 490-497: the search results as context blocks
chat_context_blocks(search_results) ==
    [i \in 1..Len(search_results) |->
        [title |-> search_results[i].title,
         url |-> search_results[i].url,
         last_updated |-> "",
         excerpt |-> search_results[i].content]]

\* sum(result.get('relevance_score', 0.5) for result in search_results)
RECURSIVE sum_relevance(_)
sum_relevance(search_results) ==
    IF search_results = <<>> THEN 0
    ELSE Head(search_results).relevance_score + sum_relevance(Tail(search_results))

\* a faulty variant of the mean relevance: 1.0 without results
avg_relevance_default_one(search_results) ==
    IF search_results # <<>> THEN sum_relevance(search_results) \div Len(search_results) ELSE 1000000

\* line 500: the mean relevance, 0.0 without results
avg_relevance(search_results) ==
    IF search_results # <<>> THEN sum_relevance(search_results) \div Len(search_results) ELSE 0

\* a faulty variant of the match score: the mean handed on without the cap
chat_match_score_uncapped(search_results) == avg_relevance(search_results)

\* line 501: match_score = min(1.0, avg_relevance)
chat_match_score(search_results) == Min(1000000, avg_relevance(search_results))

\* [x['url'] for x in items if x['url']] (the test is vacuous for the citations)
urls_of(items) ==
    LET kept == {i \in DOMAIN items : items[i].url # ""}
    IN [k \in 1..Cardinality(kept) |->
            items[CHOOSE i \in kept : Cardinality({j \in kept : j < i}) = k - 1].url]

\* lines 507-509: the urls of the citations, else those of the search results
chat_sources(citations, search_results) ==
    IF citations # <<>> THEN [i \in DOMAIN citations |-> citations[i].url]
    ELSE urls_of(search_results)

\* line 511: request.conversation_id or a generated one
demo_conversation_id(conversation_id, now) ==
    IF conversation_id # "" THEN conversation_id ELSE "smart_demo_" \o now

\* a faulty variant of ChatResponse: the conversation id stamped on the answer text
ChatResponse_stamped(response, conversation_id, sources, confidence_score, structured_response) ==
    [status |-> 200,
     response |-> response,
     conversation_id |-> conversation_id,
     sources |-> sources,
     confidence_score |-> confidence_score,
     structured_response |->
        [structured_response EXCEPT !.text = @ \o " [" \o conversation_id \o "]"]]

\* lines 513-519: the ChatResponse returned with status 200
ChatResponse(response, conversation_id, sources, confidence_score, structured_response) ==
    [status |-> 200,
     response |-> response,
     conversation_id |-> conversation_id,
     sources |-> sources,
     confidence_score |-> confidence_score,
     structured_response |-> structured_response]

\* lines 506-519
demo_chat_response(demo_response, search_results, conversation_id, now) ==
    ChatResponse(demo_response.text,
                 demo_conversation_id(conversation_id, now),
                 Take(chat_sources(demo_response.citations, search_results), 3),
                 demo_response.confidence,
                 demo_response)

-----------------------------------------------------------------------------
(* smart_demo_server.py: generate_intelligent_response *)

\* the arrow U+2192 of the answer texts, written in ASCII
Arrow == "->"

\* a faulty variant of the match score: the mean handed on without the cap
gir_match_score_uncapped(search_results) ==
    sum_relevance(search_results) \div Len(search_results)

\* lines 384-385: min(1.0, mean relevance_score) of a non-empty result list
gir_match_score(search_results) ==
    Min(1000000, sum_relevance(search_results) \div Len(search_results))

\* lines 395-401: the citation of one result
gir_citation(result) ==
    [title |-> result.title,
     url   |-> result.url,
     quote |-> IF Len(result.content) > 100 THEN Take(result.content, 100) \o "..." ELSE result.content]

\* result.get('url') and result.get('title')
has_url_and_title(result) == result.url # "" /\ result.title # ""

\* lines 394-401: the citations of search_results[:3] that have a url and a title
gir_citations(search_results) ==
    LET kept == SelectSeq(Take(search_results, 3), has_url_and_title)
    IN [i \in 1..Len(kept) |-> gir_citation(kept[i])]

\* lines 414-444: the answer text by intent keyword
gir_text(query_lower, search_results, title, url, content) ==
    IF AnyIn(<<"what is", "what are", "define", "explain">>, query_lower)
    THEN IF Contains(query_lower, "core dna") \/ Contains(query_lower, "coredna")
         THEN "Based on Core DNA's documentation: " \o Take(content, 200) \o "..."
              \o (IF Len(search_results) > 1
                  THEN " Additional details: " \o Take(search_results[2].content, 100) \o "..."
                  ELSE "")
         ELSE "According to [" \o title \o " " \o Arrow \o " " \o url \o "]: " \o Take(content, 250) \o "..."
    ELSE IF AnyIn(<<"how", "steps", "process", "setup">>, query_lower)
    THEN "From Core DNA's documentation on " \o Lower(title) \o ": " \o Take(content, 300) \o "..."
    ELSE IF AnyIn(<<"feature", "capability", "function", "can">>, query_lower)
    THEN "Core DNA offers these capabilities: **" \o title \o "**: " \o Take(content, 200) \o "..."
         \o (IF Len(search_results) > 1
             THEN " Also: **" \o search_results[2].title \o "**: " \o Take(search_results[2].content, 150) \o "..."
             ELSE "")
    ELSE IF AnyIn(<<"price", "cost", "pricing", "plan">>, query_lower)
    THEN IF ~Contains(Lower(content), "demo mode cannot access")
         THEN "For specific pricing, contact Core DNA directly. From documentation: " \o Take(content, 200) \o "..."
         ELSE "Demo mode cannot access live pricing tools. For current pricing information, please contact Core DNA directly."
    ELSE IF AnyIn(<<"integration", "connect", "api", "sync">>, query_lower)
    THEN "Core DNA integration capabilities [" \o title \o " " \o Arrow \o " " \o url \o "]: " \o Take(content, 300) \o "..."
    ELSE "From Core DNA's documentation on '" \o title \o "': " \o Take(content, 280) \o "..."
         \o (IF Len(search_results) > 1
             THEN " Related: " \o Take(search_results[2].content, 100) \o "..."
             ELSE "")

\* lines 403-456: the answer to a non-empty result list with this match score
gir_answer(q, search_results, score) ==
    IF score < LOW_CONFIDENCE
    THEN Response("I couldn't find sufficient information about that topic in my Core DNA knowledge base. Could you rephrase your question or ask about a specific Core DNA feature?",
                  <<>>, score, <<[type |-> "clarify"]>>)
    ELSE Response(gir_text(Lower(q), search_results, search_results[1].title,
                           search_results[1].url, search_results[1].content)
                      \o (IF score < HIGH_CONFIDENCE
                          THEN "\n\nWould you like more specific information about any particular aspect?"
                          ELSE ""),
                  gir_citations(search_results),
                  score,
                  <<[type |-> IF score < HIGH_CONFIDENCE THEN "clarify" ELSE "none"]>>)

\* generate_intelligent_response(query, search_results), lines 372-456
generate_intelligent_response(q, search_results) ==
    IF search_results = <<>>
    THEN Response("I don't have specific information about that topic in my Core DNA knowledge base. Could you be more specific about what aspect of Core DNA's platform you're interested in?",
                  <<>>, 100000, <<[type |-> "clarify"]>>)
    ELSE gir_answer(q, search_results, gir_match_score(search_results))

-----------------------------------------------------------------------------
(* production_server.py: generate_rag_response and chat_endpoint *)

Max(a, b) == IF a > b THEN a ELSE b

\* sum(chunk['distance'] for chunk in chunks)
RECURSIVE sum_distance(_)
sum_distance(chunks) ==
    IF chunks = <<>> THEN 0 ELSE chunks[1].distance + sum_distance(Tail(chunks))

\* metadata.get('title', 'Core DNA Documentation')
metadata_title(metadata) ==
    IF "title" \in DOMAIN metadata THEN metadata.title ELSE "Core DNA Documentation"

\* metadata.get('last_updated', '')
metadata_last_updated(metadata) ==
    IF "last_updated" \in DOMAIN metadata THEN metadata.last_updated ELSE ""

\* lines 231-232: max(0.1, 1.0 - avg_distance / 2.0) of a non-empty chunk list
rag_retrieval_confidence(chunks) ==
    Max(100000, 1000000 - ((sum_distance(chunks) \div Len(chunks)) \div 2))

\* lines 235-241: title, url and content of context_chunks[:3]
rag_context_blocks(chunks) ==
    [i \in 1..Min(3, Len(chunks)) |->
        [title   |-> metadata_title(chunks[i].metadata),
         url     |-> chunks[i].metadata.source_url,
         content |-> chunks[i].text]]

\* lines 214-220: returned when openai_client is None
client_unavailable_response ==
    Response("OpenAI client not available. Please check configuration.",
             <<>>, 100000, <<[type |-> "handoff"]>>)

\* lines 222-228: returned when context_chunks is empty
no_chunks_response ==
    Response("I don't have specific information about that topic in my Core DNA knowledge base. Could you be more specific about what aspect of Core DNA's platform you're interested in?",
             <<>>, 100000, <<[type |-> "clarify"]>>)

\* a faulty variant of the handler of a failed completion: a clarifying question
completion_error_clarify ==
    Response("I encountered an error while processing your question. Please try again.",
             <<>>, 100000, <<[type |-> "clarify"]>>)

\* lines 341-348: returned by the handler of any exception of the try block
completion_error_response ==
    Response("I encountered an error while processing your question. Please try again.",
             <<>>, 100000, <<[type |-> "handoff"]>>)

\* lines 332-339: the answer of the service is not JSON
fallback_response(answer, blocks, confidence) ==
    Response(answer,
             [i \in DOMAIN blocks |-> [title |-> blocks[i].title, url |-> blocks[i].url, quote |-> ""]],
             confidence,
             <<[type |-> "none"]>>)

\* the answers of the text-generation service the model draws from
prose_answer == " Core DNA is a digital commerce platform. "
empty_object_answer == "{}"
complete_answer == "{\"text\": \"Core DNA is a platform.\", \"citations\": [], \"confidence\": 0.9, \"actions\": [{\"type\": \"none\"}]}"
no_confidence_answer == "{\"text\": \"Which feature do you mean?\", \"citations\": [], \"actions\": [{\"type\": \"clarify\"}]}"
malformed_answer == "{\"text\": \"Escalating.\", \"citations\": [], \"confidence\": 7, \"actions\": [{\"type\": \"escalate\"}]}\n"
array_answer == "[]"

\* the empty dict
EmptyDict == [key \in {} |-> ""]

\* json.loads(answer) on the answers above: a JSONDecodeError, a dict, or a list
json_loads(answer) ==
    CASE answer = "{}" ->
            [kind |-> "dict", value |-> EmptyDict]
      [] answer = Strip(complete_answer) ->
            [kind |-> "dict",
             value |-> [text |-> "Core DNA is a platform.", citations |-> <<>>,
                        confidence |-> 900000, actions |-> <<[type |-> "none"]>>]]
      [] answer = Strip(no_confidence_answer) ->
            [kind |-> "dict",
             value |-> [text |-> "Which feature do you mean?", citations |-> <<>>,
                        actions |-> <<[type |-> "clarify"]>>]]
      [] answer = Strip(malformed_answer) ->
            [kind |-> "dict",
             value |-> [text |-> "Escalating.", citations |-> <<>>,
                        confidence |-> 7000000, actions |-> <<[type |-> "escalate"]>>]]
      [] answer = "[]" ->
            [kind |-> "list", value |-> EmptyDict]
      [] OTHER ->
            [kind |-> "JSONDecodeError", value |-> EmptyDict]

\* d[key] = value on a dict
SetItem(d, key, value) ==
    [k \in DOMAIN d \cup {key} |-> IF k = key THEN value ELSE d[k]]

\* lines 324-339: the answer parsed and returned as it is (with the retrieval
\* confidence when it has none), the fallback when it is not JSON; a list takes
\* no item 'confidence' (TypeError), which the handler of line 341 catches
rag_parsed_response(answer, blocks, confidence) ==
    LET parsed_response == json_loads(answer) IN
    CASE parsed_response.kind = "JSONDecodeError" -> fallback_response(answer, blocks, confidence)
      [] parsed_response.kind = "dict" ->
            IF "confidence" \in DOMAIN parsed_response.value
            THEN parsed_response.value
            ELSE SetItem(parsed_response.value, "confidence", confidence)
      [] OTHER -> completion_error_response

\* chat.completions.create was not called
NoCompletion == [called |-> FALSE, raises |-> FALSE, has_content |-> FALSE, content |-> ""]

\* chat.completions.create raised; returned a message without content (None);
\* returned a message with this content
CompletionRaises == [called |-> TRUE, raises |-> TRUE, has_content |-> FALSE, content |-> ""]
CompletionEmpty == [called |-> TRUE, raises |-> FALSE, has_content |-> FALSE, content |-> ""]
CompletionOf(content) == [called |-> TRUE, raises |-> FALSE, has_content |-> TRUE, content |-> content]

\* whether generate_rag_response reaches chat.completions.create
calls_completion(client, chunks) == client /\ chunks # <<>>

\* generate_rag_response(query, context_chunks), lines 211-348; outcome is what
\* chat.completions.create does when it is called.  content.strip() of a
\* message without content raises AttributeError, caught at line 341.
generate_rag_response(client, chunks, outcome) ==
    IF ~client THEN client_unavailable_response
    ELSE IF chunks = <<>> THEN no_chunks_response
    ELSE IF outcome.raises \/ ~outcome.has_content THEN completion_error_response
    ELSE rag_parsed_response(Strip(outcome.content), rag_context_blocks(chunks),
                             rag_retrieval_confidence(chunks))

\* ChromaVectorStore.query (chroma_store.py lines 94-126): the n_results nearest
\* chunks, and [] when the collection query raises
vector_store_query(query_raises, nearest, n_results) ==
    IF query_raises THEN <<>> ELSE Take(nearest, n_results)

\* chat_endpoint lines 407-414: search_results[:3] as context blocks
prod_context_blocks(search_results) ==
    [i \in 1..Min(3, Len(search_results)) |->
        [title        |-> metadata_title(search_results[i].metadata),
         url          |-> search_results[i].metadata.source_url,
         last_updated |-> metadata_last_updated(search_results[i].metadata),
         excerpt      |-> search_results[i].text]]

\* chat_endpoint lines 417-418: avg_distance is 1.0 without results
prod_retrieval_confidence(search_results) ==
    LET avg_distance == IF search_results # <<>>
                        THEN sum_distance(search_results) \div Len(search_results)
                        ELSE 1000000
    IN Max(100000, 1000000 - (avg_distance \div 2))

\* chat_endpoint lines 424-427: the urls of the citations, else of the results
prod_sources(citations, search_results) ==
    IF citations # <<>> THEN [i \in DOMAIN citations |-> citations[i].url]
    ELSE [i \in DOMAIN search_results |-> search_results[i].metadata.source_url]

\* line 429: request.conversation_id or a generated one
prod_conversation_id(conversation_id, now) ==
    IF conversation_id # "" THEN conversation_id ELSE "rag_prod_" \o now

\* an HTTPException handed to the framework
HTTPException(status_code) == [status |-> status_code]

\* chat_endpoint lines 397-441.  Without a vector store the HTTPException(503)
\* of line 401 is raised inside the try block and, being an Exception, is
\* caught at line 439 and raised again with status 500.
prod_chat_endpoint(store, message, search_results, conversation_id, now) ==
    IF ~store THEN HTTPException(500)
    ELSE LET rag_response == prod_assembler(message, prod_context_blocks(search_results),
                                            prod_retrieval_confidence(search_results))
         IN ChatResponse(rag_response.text,
                         prod_conversation_id(conversation_id, now),
                         Take(prod_sources(rag_response.citations, search_results), 3),
                         rag_response.confidence,
                         rag_response)

-----------------------------------------------------------------------------
(* The inputs the assemblers are applied to *)

\* the longest context_blocks list drawn
MaxBlocks == 4

Block(title, url, excerpt) == [title |-> title, url |-> url, last_updated |-> "", excerpt |-> excerpt]

\* context blocks in a ranked order, as test_strict_json.py builds them
BlockPool == <<
    Block("Core dna E-commerce Platform", "https://coredna.com/features/ecommerce",
          "Core DNA provides a comprehensive e-commerce platform with advanced features for online stores, including inventory management."),
    Block("Core DNA Integration Capabilities", "https://coredna.com/integrations",
          "Connect Core DNA with over 100 third-party applications including CRM systems."),
    Block("Guide", "https://coredna.com/guides/start",
          "Content: - Short note.\n- Second item"),
    Block("Pricing", "https://coredna.com/pricing",
          "Page Title: Pricing\n\nThe platform offers flexible plans for every business! Contact our sales team.") >>

\* the pool in rank order and in reverse rank order
BlockOrders == {BlockPool, [i \in 1..Len(BlockPool) |-> BlockPool[Len(BlockPool) + 1 - i]]}

\* every prefix, up to MaxBlocks blocks, of an order of the pool
BlockLists == {Take(o, n) : o \in BlockOrders, n \in 0..MaxBlocks}

Messages == {"hello", " Hi ", "What is Core DNA?", "I need a demo and pricing information",
             "Tell me about features", "What about quantum computing?", "book a demo",
             "explain hosting", "define uptime", "how to deploy", "can it scale", "",
             "explain the api",
             "contact sales about the online store", "connect api"}

\* 0.0, 0.34, 0.549999, 0.55, 0.719999, 0.72, 0.80, 1.0
Confidences == {0, 340000, 549999, 550000, 719999, 720000, 800000, 1000000}

\* resp before an assembler has run
NoResponse == [text |-> "", citations |-> <<>>, confidence |-> 0, actions |-> <<>>]

\* no chat request yet
NoChat == [status |-> 0]

ChatIdle ==
    /\ chat_request = NoChat
    /\ chat_response = NoChat
    /\ previous_chat = NoChat

\* the globals as the module defines them
NoSnapshot == [data |-> <<>>, index |-> <<>>]

\* no search_content call observed yet
NoObservation == [in_flight |-> FALSE, data |-> <<>>, index |-> <<>>, old_data |-> <<>>, old_index |-> <<>>]

\* generate_rag_response has not been called
RagIdle ==
    /\ openai_client = FALSE
    /\ vector_store = FALSE
    /\ context_chunks = <<>>
    /\ completion = NoCompletion
    /\ rag_result = NoResponse
    /\ prod_results = <<>>

\* the empty dict / the site that serves nothing
NoPages == [u \in {} |-> {}]

\* scrape_all_pages has not been called on a new CoreDNAScraper
CrawlIdle ==
    /\ crawl_pc = "idle"
    /\ site = [pages |-> NoPages, sitemap |-> {}]
    /\ max_pages = 1
    /\ to_visit = {}
    /\ visited_urls = {}
    /\ scraped_pages = <<>>
    /\ fetch_log = <<>>
    /\ calls = 0

\* create_text_chunks has not been called
ChunkIdle ==
    /\ chunk_pc = "idle"
    /\ processed_docs = <<>>
    /\ max_chunk_size = 1000
    /\ overlap = 200
    /\ text_chunks = <<>>
    /\ doc_idx = 1
    /\ doc_words = <<>>
    /\ chunk_id = 0
    /\ start_idx = 0
    /\ iterations = 0

\* get_document_context has not been called
RetrieverIdle ==
    /\ store_results = <<>>
    /\ max_context_length = 4000
    /\ context_built = FALSE
    /\ document_context = ""

OfflineIdle == CrawlIdle /\ ChunkIdle /\ RetrieverIdle

CleanIdle ==
    /\ clean_pc = 0
    /\ clean_input = ""
    /\ clean_output = ""
    /\ clean_twice = ""

LoadIdle ==
    /\ load_pc = "idle"
    /\ load_pos = 1
    /\ loads = 0
    /\ before = NoSnapshot
    /\ observed = NoObservation

-----------------------------------------------------------------------------
(* One request: the arguments are drawn, then one of the assemblers is run *)

Init ==
    /\ which = "none"
    /\ user_message \in Messages
    /\ context_blocks \in BlockLists
    /\ match_score \in Confidences
    /\ resp = NoResponse
    /\ started = FALSE
    /\ scraped_data = <<>>
    /\ indexed_content = <<>>
    /\ query = ""
    /\ max_results = 0
    /\ results = <<>>
    /\ search_response = <<>>
    /\ ChatIdle
    /\ LoadIdle
    /\ CleanIdle
    /\ RagIdle
    /\ OfflineIdle

\* smart_demo_server.assemble_grounded_response(user_message, context_blocks, match_score)
DemoAssemble ==
    /\ which = "none"
    /\ which' = "demo"
    /\ resp' = demo_assembler(user_message, context_blocks, match_score)
    /\ UNCHANGED <<user_message, context_blocks, match_score>>
    /\ UNCHANGED search_vars
    /\ UNCHANGED chat_vars
    /\ UNCHANGED load_vars
    /\ UNCHANGED clean_vars
    /\ UNCHANGED rag_vars
    /\ UNCHANGED offline_vars

\* production_server.assemble_grounded_response(user_message, context_blocks, retrieval_confidence)
ProdAssemble ==
    /\ which = "none"
    /\ which' = "prod"
    /\ resp' = prod_assembler(user_message, context_blocks, match_score)
    /\ UNCHANGED <<user_message, context_blocks, match_score>>
    /\ UNCHANGED search_vars
    /\ UNCHANGED chat_vars
    /\ UNCHANGED load_vars
    /\ UNCHANGED clean_vars
    /\ UNCHANGED rag_vars
    /\ UNCHANGED offline_vars

Next == DemoAssemble \/ ProdAssemble

Spec == Init /\ [][Next]_vars

-----------------------------------------------------------------------------
(* The demo server: startup loads and indexes the corpus, then GET /search *)

\* the longest corpus loaded
MaxDocs == 3

Doc(url, title, content) == [url |-> url, title |-> title, content |-> content]

DocPool == <<
    Doc("https://coredna.com/features", "Store", "cart shop plan"),
    Doc("https://coredna.com/data", "Data", "data data, data!"),
    Doc("https://coredna.com/hosting", "Plans", "Hosting plan, api") >>

\* the corpora: the sequences without repetition of at most MaxDocs documents of the pool
Corpora ==
    {d \in UNION {[1..n -> {DocPool[i] : i \in DOMAIN DocPool}] : n \in 0..Min(MaxDocs, Len(DocPool))} :
        \A i, j \in DOMAIN d : i # j => d[i] # d[j]}

Queries == {"cart shop plan data", "data", "data data", "hosting cart", "cart hosting",
            "Plan?", "", "api", "the cart", "cart cart", "??", "hosting plans store"}

\* limit of GET /search: 5 is the default, 3 is what chat_endpoint asks for;
\* the parameter is an unconstrained int, so 0 and -1 are accepted too
Limits == {1, 3, 5, 0, -1}

\* s repeated n times
RECURSIVE Repeat(_, _)
Repeat(s, n) == IF n = 0 THEN "" ELSE s \o Repeat(s, n - 1)

\* a page whose content is longer than the 500 characters a posting keeps:
\* a 500-digit token, then " tail"
LongDoc == Doc("https://coredna.com/long", "Long doc", Repeat("0123456789", 50) \o " tail")

\* the corpora a startup loads
StartupCorpora == Corpora \cup {<<LongDoc>>, <<DocPool[1], LongDoc>>}

SearchInit ==
    /\ which = "none"
    /\ user_message = ""
    /\ context_blocks = <<>>
    /\ match_score = 0
    /\ resp = NoResponse
    /\ started = FALSE
    /\ scraped_data = <<>>
    /\ indexed_content = <<>>
    /\ query = ""
    /\ max_results = 0
    /\ results = <<>>
    /\ search_response = <<>>
    /\ ChatIdle
    /\ LoadIdle
    /\ CleanIdle
    /\ RagIdle
    /\ OfflineIdle

\* startup_event -> load_scraped_data(): a data file is read and indexed
Startup ==
    /\ ~started
    /\ \E data \in StartupCorpora :
        /\ scraped_data' = data
        /\ indexed_content' = create_keyword_index(indexed_content, data)
    /\ started' = TRUE
    /\ UNCHANGED <<query, max_results, results, search_response>>
    /\ UNCHANGED assembler_vars
    /\ UNCHANGED chat_vars
    /\ UNCHANGED load_vars
    /\ UNCHANGED clean_vars
    /\ UNCHANGED rag_vars
    /\ UNCHANGED offline_vars

\* startup_event -> load_scraped_data(): no data file exists
StartupNoData ==
    /\ ~started
    /\ started' = TRUE
    /\ UNCHANGED <<scraped_data, indexed_content, query, max_results, results, search_response>>
    /\ UNCHANGED assembler_vars
    /\ UNCHANGED chat_vars
    /\ UNCHANGED load_vars
    /\ UNCHANGED clean_vars
    /\ UNCHANGED rag_vars
    /\ UNCHANGED offline_vars

\* GET /search?q=..&limit=..
SearchEndpoint ==
    /\ started
    /\ \E q \in Queries, limit \in Limits :
        /\ query' = q
        /\ max_results' = limit
        /\ results' = search_content(scraped_data, indexed_content, q, limit)
        /\ search_response' = search_endpoint(search_content(scraped_data, indexed_content, q, limit))
    /\ UNCHANGED <<started, scraped_data, indexed_content>>
    /\ UNCHANGED assembler_vars
    /\ UNCHANGED chat_vars
    /\ UNCHANGED load_vars
    /\ UNCHANGED clean_vars
    /\ UNCHANGED rag_vars
    /\ UNCHANGED offline_vars

SearchNext == Startup \/ StartupNoData \/ SearchEndpoint

SearchSpec == SearchInit /\ [][SearchNext]_vars

-----------------------------------------------------------------------------
(* The demo server after startup: POST /chat *)

\* corpora loaded at startup: none, one document, and several in different orders
ChatCorpora ==
    {<<>>,
     <<DocPool[1]>>,
     <<DocPool[1], DocPool[2]>>,
     <<DocPool[3], DocPool[1]>>,
     <<DocPool[1], DocPool[3], DocPool[2]>>}

ChatMessages == {"hello", "", "??", "data", "hosting cart", "cart hosting data",
                 "a demo of the data", "quantum computing", "pricing plans"}

\* request.conversation_id ("" when the client sends none)
ConversationIds == {"", "c-1"}

\* datetime.now().strftime('%Y%m%d_%H%M%S')
Clock == {"20240115_093000"}

\* the state once startup_event has returned
ChatInit ==
    /\ which = "none"
    /\ user_message = ""
    /\ context_blocks = <<>>
    /\ match_score = 0
    /\ resp = NoResponse
    /\ started = TRUE
    /\ scraped_data \in ChatCorpora
    /\ indexed_content = create_keyword_index(<<>>, scraped_data)
    /\ query = ""
    /\ max_results = 0
    /\ results = <<>>
    /\ search_response = <<>>
    /\ ChatIdle
    /\ LoadIdle
    /\ CleanIdle
    /\ RagIdle
    /\ OfflineIdle

\* POST /chat of smart_demo_server (lines 482-522)
DemoChat ==
    /\ started
    /\ \E message \in ChatMessages, conversation_id \in ConversationIds, now \in Clock :
        /\ chat_request' = [status |-> 1, message |-> message, conversation_id |-> conversation_id]
        /\ user_message' = message
        /\ query' = message
        /\ max_results' = 3
        /\ results' = search_content(scraped_data, indexed_content, message, 3)
        /\ context_blocks' = chat_context_blocks(results')
        /\ match_score' = chat_match_score(results')
        /\ resp' = demo_assembler(message, context_blocks', match_score')
        /\ chat_response' = demo_chat_response(resp', results', conversation_id, now)
    /\ which' = "demo"
    /\ previous_chat' = IF chat_request = NoChat THEN NoChat
                        ELSE [status |-> 1,
                              message |-> chat_request.message,
                              structured_response |-> chat_response.structured_response]
    /\ UNCHANGED <<started, scraped_data, indexed_content, search_response>>
    /\ UNCHANGED load_vars
    /\ UNCHANGED clean_vars
    /\ UNCHANGED rag_vars
    /\ UNCHANGED offline_vars

ChatNext == DemoChat

ChatSpec == ChatInit /\ [][ChatNext]_vars

-----------------------------------------------------------------------------
(* Reloading the corpus: load_scraped_data step by step, with search_content
   calls in between.  Neither function takes a lock; the steps of the loader
   are the assignment of scraped_data and, per document, the appends of
   create_keyword_index. *)

\* how many times load_scraped_data is called
MaxLoads == 2

RebuildCorpora ==
    {<<>>,
     <<DocPool[1]>>,
     <<DocPool[2], DocPool[1]>>,
     <<DocPool[3]>>}

RebuildQueries == {"data", "cart plan"}

RebuildInit ==
    /\ which = "none"
    /\ user_message = ""
    /\ context_blocks = <<>>
    /\ match_score = 0
    /\ resp = NoResponse
    /\ started = FALSE
    /\ scraped_data = <<>>
    /\ indexed_content = <<>>
    /\ query = ""
    /\ max_results = 0
    /\ results = <<>>
    /\ search_response = <<>>
    /\ ChatIdle
    /\ LoadIdle
    /\ CleanIdle
    /\ RagIdle
    /\ OfflineIdle

\* load_scraped_data, lines 76-80: a data file exists; scraped_data is rebound
LoadBegin ==
    /\ load_pc = "idle"
    /\ loads < MaxLoads
    /\ \E data \in RebuildCorpora :
        /\ scraped_data' = data
        /\ load_pc' = IF data = <<>> THEN "idle" ELSE "indexing"
    /\ before' = [data |-> scraped_data, index |-> indexed_content]
    /\ load_pos' = 1
    /\ loads' = loads + 1
    /\ started' = TRUE
    /\ UNCHANGED <<indexed_content, query, max_results, results, search_response, observed>>
    /\ UNCHANGED assembler_vars
    /\ UNCHANGED chat_vars
    /\ UNCHANGED clean_vars
    /\ UNCHANGED rag_vars
    /\ UNCHANGED offline_vars

\* create_keyword_index, lines 97-116: one iteration of the loop over scraped_data
LoadIndexDoc ==
    /\ load_pc = "indexing"
    /\ indexed_content' = create_keyword_index(indexed_content, <<scraped_data[load_pos]>>)
    /\ load_pos' = load_pos + 1
    /\ load_pc' = IF load_pos = Len(scraped_data) THEN "idle" ELSE "indexing"
    /\ UNCHANGED <<started, scraped_data, query, max_results, results, search_response>>
    /\ UNCHANGED <<loads, before, observed>>
    /\ UNCHANGED assembler_vars
    /\ UNCHANGED chat_vars
    /\ UNCHANGED clean_vars
    /\ UNCHANGED rag_vars
    /\ UNCHANGED offline_vars

\* load_scraped_data, lines 90-91: no data file exists; nothing is changed
LoadNoData ==
    /\ load_pc = "idle"
    /\ loads < MaxLoads
    /\ before' = [data |-> scraped_data, index |-> indexed_content]
    /\ loads' = loads + 1
    /\ started' = TRUE
    /\ UNCHANGED <<scraped_data, indexed_content, query, max_results, results, search_response>>
    /\ UNCHANGED <<load_pc, load_pos, observed>>
    /\ UNCHANGED assembler_vars
    /\ UNCHANGED chat_vars
    /\ UNCHANGED clean_vars
    /\ UNCHANGED rag_vars
    /\ UNCHANGED offline_vars

\* search_content(q, 3), at any point of a load
RebuildSearch ==
    /\ started
    /\ \E q \in RebuildQueries :
        /\ query' = q
        /\ results' = search_content(scraped_data, indexed_content, q, 3)
    /\ max_results' = 3
    /\ observed' = [in_flight |-> load_pc = "indexing",
                    data |-> scraped_data,
                    index |-> indexed_content,
                    old_data |-> before.data,
                    old_index |-> before.index]
    /\ UNCHANGED <<started, scraped_data, indexed_content, search_response>>
    /\ UNCHANGED <<load_pc, load_pos, loads, before>>
    /\ UNCHANGED assembler_vars
    /\ UNCHANGED chat_vars
    /\ UNCHANGED clean_vars
    /\ UNCHANGED rag_vars
    /\ UNCHANGED offline_vars

RebuildNext == LoadBegin \/ LoadIndexDoc \/ LoadNoData \/ RebuildSearch

RebuildSpec == RebuildInit /\ [][RebuildNext]_vars

-----------------------------------------------------------------------------
(* clean_content applied to an excerpt, and again to its own result *)

\* boilerplate markers an excerpt can begin with
CleanPrefixes == {"", "Content: ", "- - ", "1. 2. ", "Core dna Platform\n", "Page Title: X\n\n"}

\* a body with four useful sentences among sentences that are skipped: one that
\* ends on "Core dna", an all-caps heading, a short one, one without any
\* informative word
ManySentences ==
    "The platform provides tools for every business owner. "
    \o "Learn more about the commerce platform from Core dna. "
    \o "THE COMMERCE PLATFORM FOR MODERN BUSINESS TEAMS. "
    \o "Short business. "
    \o "It offers a complete solution for online stores! "
    \o "This long sentence names nothing from that list at all. "
    \o "Customer management supports every team? "
    \o "Integration with many other systems is a feature."

CleanBodies == {"", "Short note.", "The platform provides tools for every business owner.",
                "Implementation Example: do this", " ", "- item", "Description of plans\nNext",
                "THE END", ManySentences}

CleanInputs == {prefix \o body : prefix \in CleanPrefixes, body \in CleanBodies}

CleanInit ==
    /\ which = "none"
    /\ user_message = ""
    /\ context_blocks = <<>>
    /\ match_score = 0
    /\ resp = NoResponse
    /\ started = FALSE
    /\ scraped_data = <<>>
    /\ indexed_content = <<>>
    /\ query = ""
    /\ max_results = 0
    /\ results = <<>>
    /\ search_response = <<>>
    /\ ChatIdle
    /\ LoadIdle
    /\ RagIdle
    /\ OfflineIdle
    /\ clean_pc = 0
    /\ clean_input \in CleanInputs
    /\ clean_output = ""
    /\ clean_twice = ""

\* clean_content(excerpt)
CleanOnce ==
    /\ clean_pc = 0
    /\ clean_pc' = 1
    /\ clean_output' = clean_content(clean_input)
    /\ UNCHANGED <<clean_input, clean_twice>>
    /\ UNCHANGED assembler_vars
    /\ UNCHANGED search_vars
    /\ UNCHANGED <<chat_request, chat_response, previous_chat>>
    /\ UNCHANGED <<load_pc, load_pos, loads, before, observed>>
    /\ UNCHANGED rag_vars
    /\ UNCHANGED offline_vars

\* clean_content applied to a string that is already cleaned
CleanAgain ==
    /\ clean_pc = 1
    /\ clean_pc' = 2
    /\ clean_twice' = clean_content(clean_output)
    /\ UNCHANGED <<clean_input, clean_output>>
    /\ UNCHANGED assembler_vars
    /\ UNCHANGED search_vars
    /\ UNCHANGED <<chat_request, chat_response, previous_chat>>
    /\ UNCHANGED <<load_pc, load_pos, loads, before, observed>>
    /\ UNCHANGED rag_vars
    /\ UNCHANGED offline_vars

CleanNext == CleanOnce \/ CleanAgain

CleanSpec == CleanInit /\ [][CleanNext]_vars

-----------------------------------------------------------------------------
(* The production server: startup, then one call of generate_rag_response or
   one POST /chat *)

\* the longest chunk list handed to generate_rag_response
MaxChunks == 4

\* cosine distances of the chunks of the pool: 0.2, 0.4, 0.6, 2.0
ChunkDistances == <<200000, 400000, 600000, 2000000>>

\* one query result of ChromaVectorStore.query; the metadata is the one
\* add_documents stored (source_url always, title for the chunks that have one)
Chunk(block, distance, titled) ==
    [text     |-> block.excerpt,
     distance |-> distance,
     metadata |-> IF titled
                  THEN [source_url |-> block.url, title |-> block.title]
                  ELSE [source_url |-> block.url]]

\* the context blocks of test_strict_json.py as chunks; the third has no title
ChunkPool == [i \in 1..Len(BlockPool) |-> Chunk(BlockPool[i], ChunkDistances[i], i # 3)]

\* nearest first, and farthest first
ChunkOrders == {ChunkPool, [i \in 1..Len(ChunkPool) |-> ChunkPool[Len(ChunkPool) + 1 - i]]}

ChunkLists == {Take(o, n) : o \in ChunkOrders, n \in 0..MaxChunks}

RagQueries == {"explain hosting", "What about quantum computing?", "book a demo"}

\* what chat.completions.create can do
Completions ==
    {CompletionRaises, CompletionEmpty}
    \cup {CompletionOf(content) : content \in {prose_answer, empty_object_answer, complete_answer,
                                               no_confidence_answer, malformed_answer, array_answer}}

\* the module as imported: no client, no vector store
ProdInit ==
    /\ which = "none"
    /\ user_message = ""
    /\ context_blocks = <<>>
    /\ match_score = 0
    /\ resp = NoResponse
    /\ started = FALSE
    /\ scraped_data = <<>>
    /\ indexed_content = <<>>
    /\ query = ""
    /\ max_results = 0
    /\ results = <<>>
    /\ search_response = <<>>
    /\ ChatIdle
    /\ LoadIdle
    /\ CleanIdle
    /\ RagIdle
    /\ OfflineIdle

\* startup_event (lines 350-362, initialize_* at lines 82-116): initialize_openai and initialize_vector_store
\* set the globals when they succeed
ProdStartup ==
    /\ ~started
    /\ which = "none"
    /\ started' = TRUE
    /\ \E openai_ok \in BOOLEAN, store_ok \in BOOLEAN :
        /\ openai_client' = openai_ok
        /\ vector_store' = store_ok
    /\ UNCHANGED assembler_vars
    /\ UNCHANGED <<scraped_data, indexed_content, query, max_results, results, search_response>>
    /\ UNCHANGED chat_vars
    /\ UNCHANGED load_vars
    /\ UNCHANGED clean_vars
    /\ UNCHANGED <<context_chunks, completion, rag_result, prod_results>>
    /\ UNCHANGED offline_vars

\* generate_rag_response(query, context_chunks)
GenerateRag ==
    /\ which = "none"
    /\ \E q \in RagQueries, chunks \in ChunkLists, outcome \in Completions :
        /\ user_message' = q
        /\ context_chunks' = chunks
        /\ completion' = IF calls_completion(openai_client, chunks) THEN outcome ELSE NoCompletion
        /\ rag_result' = generate_rag_response(openai_client, chunks, outcome)
    /\ which' = "rag"
    /\ UNCHANGED <<context_blocks, match_score, resp>>
    /\ UNCHANGED search_vars
    /\ UNCHANGED chat_vars
    /\ UNCHANGED load_vars
    /\ UNCHANGED clean_vars
    /\ UNCHANGED <<openai_client, vector_store, prod_results>>
    /\ UNCHANGED offline_vars

\* POST /chat of production_server (lines 396-441)
ProdChat ==
    /\ which = "none"
    /\ \E message \in RagQueries, conversation_id \in ConversationIds, now \in Clock,
          query_raises \in BOOLEAN, nearest \in ChunkLists :
        /\ chat_request' = [status |-> 1, message |-> message, conversation_id |-> conversation_id]
        /\ user_message' = message
        /\ prod_results' = IF vector_store THEN vector_store_query(query_raises, nearest, 5) ELSE <<>>
        /\ context_blocks' = prod_context_blocks(prod_results')
        /\ match_score' = prod_retrieval_confidence(prod_results')
        /\ resp' = IF vector_store
                   THEN prod_assembler(message, context_blocks', match_score')
                   ELSE NoResponse
        /\ chat_response' = prod_chat_endpoint(vector_store, message, prod_results', conversation_id, now)
    /\ which' = "prod_chat"
    /\ previous_chat' = NoChat
    /\ UNCHANGED search_vars
    /\ UNCHANGED load_vars
    /\ UNCHANGED clean_vars
    /\ UNCHANGED <<openai_client, vector_store, context_chunks, completion, rag_result>>
    /\ UNCHANGED offline_vars

ProdNext == ProdStartup \/ GenerateRag \/ ProdChat

ProdSpec == ProdInit /\ [][ProdNext]_vars

-----------------------------------------------------------------------------
(* generate_intelligent_response applied to a query and a result list *)

\* the longest result list handed over
MaxResults == 3

Result(url, title, content, relevance_score) ==
    [url |-> url, title |-> title, content |-> content, score |-> POSTING_SCORE,
     relevance_score |-> relevance_score]

\* the results of test_integration.py (relevance 0.85, 0.72, 0.3), and one with
\* the relevance 1.5 that search_content gives a document matched more often
\* than the query has words
ResultPool == <<
    Result("https://coredna.com/features/ecommerce", "Core DNA E-commerce Platform",
           "Core DNA provides a comprehensive e-commerce platform with advanced features for online stores, including inventory management, payment processing, and customer analytics.",
           850000),
    Result("https://coredna.com/integrations", "Core DNA Integration Capabilities",
           "Connect Core DNA with over 100 third-party applications including CRM systems, marketing tools, and payment gateways.",
           720000),
    Result("https://example.com", "Unrelated Content",
           "This content is not very relevant to the query.", 300000),
    Result("https://coredna.com/data", "Data", "data data, data!", 1500000) >>

\* the result lists: sequences without repetition of at most MaxResults results
ResultLists ==
    {r \in UNION {[1..n -> {ResultPool[i] : i \in DOMAIN ResultPool}] : n \in 0..MaxResults} :
        \A i, j \in DOMAIN r : i # j => r[i] # r[j]}

\* one query for each intent of the answer text
ResponseQueries == {"What is Core DNA?", "What is quantum computing?", "how to deploy",
                    "can it scale", "what does a plan cost", "connect api", "hosting"}

ResponseInit ==
    /\ which = "none"
    /\ user_message \in ResponseQueries
    /\ context_blocks = <<>>
    /\ match_score = 0
    /\ resp = NoResponse
    /\ started = FALSE
    /\ scraped_data = <<>>
    /\ indexed_content = <<>>
    /\ query = ""
    /\ max_results = 0
    /\ results \in ResultLists
    /\ search_response = <<>>
    /\ ChatIdle
    /\ LoadIdle
    /\ CleanIdle
    /\ RagIdle
    /\ OfflineIdle

\* generate_intelligent_response(user_message, results)
GenerateIntelligent ==
    /\ which = "none"
    /\ which' = "intelligent"
    /\ resp' = generate_intelligent_response(user_message, results)
    /\ UNCHANGED <<user_message, context_blocks, match_score>>
    /\ UNCHANGED search_vars
    /\ UNCHANGED chat_vars
    /\ UNCHANGED load_vars
    /\ UNCHANGED clean_vars
    /\ UNCHANGED rag_vars
    /\ UNCHANGED offline_vars

ResponseNext == GenerateIntelligent

ResponseSpec == ResponseInit /\ [][ResponseNext]_vars

-----------------------------------------------------------------------------
(* Properties of the assemblers *)

\* an assembler has returned
Returned == which # "none"

\* user_message.lower().strip() of the request
UserLower == Strip(Lower(user_message))

\* neither a canned intent nor a topic shortcut of the demo assembler matches the request
NoCannedOrShortcut == ~is_canned_intent(UserLower) /\ ~is_topic_shortcut(UserLower)

\* the request holds one of the lead trigger words
HasLeadTrigger == AnyIn(lead_triggers, Lower(user_message))

action_types == {"none", "clarify", "handoff", "collect_lead", "use_tool"}

\* the text asserts the (cleaned) excerpt of no context block
NoExcerptInText ==
    \A i \in 1..Len(context_blocks) :
        \/ clean_content(context_blocks[i].excerpt) = ""
        \/ ~Contains(resp.text, Take(clean_content(context_blocks[i].excerpt), 40))

\* C1: low-confidence gate.  Whenever the confidence passed in is below 0.55, for
\* empty and non-empty context_blocks alike, the response has action clarify, no
\* citations, the confidence passed in, and a text that asserts no excerpt.
\* Stated for the requests on which no earlier rule of the policy (canned
\* intent, topic shortcut) fires; the claim covers these among all requests.
C1_LowConfidenceGate ==
    (Returned /\ NoCannedOrShortcut /\ match_score < 550000) =>
        /\ resp.actions[1].type = "clarify"
        /\ resp.citations = <<>>
        /\ resp.confidence = match_score
        /\ NoExcerptInText

\* C2: lead-capture gate.  A request holding a lead trigger word, with confidence
\* >= 0.72 and a non-empty context_blocks, is answered with action collect_lead
\* (fields name, email, company, use_case) and exactly one citation, of the top
\* block, whatever other intent or topic keyword it holds.
C2_LeadCaptureGate ==
    (Returned /\ HasLeadTrigger /\ match_score >= 720000 /\ context_blocks # <<>>) =>
        /\ resp.actions[1] = [type |-> "collect_lead", fields |-> <<"name", "email", "company", "use_case">>]
        /\ Len(resp.citations) = 1
        /\ resp.citations[1].url = context_blocks[1].url

\* C3: greeting bypass.  A request that is a greeting (lower-cased, stripped) or
\* holds "what is core dna" / "what is coredna" is answered with confidence 1.0,
\* action none and no citations, for every context_blocks and every confidence.
C3_GreetingBypass ==
    (Returned /\ is_canned_intent(UserLower)) =>
        /\ resp.confidence = 1000000
        /\ resp.actions[1].type = "none"
        /\ resp.citations = <<>>

\* the citations are those of the first n context blocks, in their order
CitesTop(n) ==
    /\ Len(resp.citations) = n
    /\ \A i \in 1..n : resp.citations[i].url = context_blocks[i].url

\* C4: threshold boundary.  For a request with no canned intent, topic shortcut
\* or lead trigger and a non-empty context_blocks the branch is decided by the
\* confidence alone: below 0.55 (0.549999) the action is clarify; from 0.55 to
\* below 0.72 (0.55, 0.719999) the action is clarify with exactly one citation, of
\* the top block; from 0.72 on the action is none and the first min(3, n) blocks
\* are cited in rank order.
C4_ThresholdBoundary ==
    (Returned /\ NoCannedOrShortcut /\ ~HasLeadTrigger /\ context_blocks # <<>>) =>
        /\ match_score < 550000 => resp.actions[1].type = "clarify"
        /\ (match_score >= 550000 /\ match_score < 720000) =>
               resp.actions[1].type = "clarify" /\ CitesTop(1)
        /\ match_score >= 720000 =>
               resp.actions[1].type = "none" /\ CitesTop(Min(3, Len(context_blocks)))

\* C4 witness: the demo assembler at exactly 0.72 with four blocks cites three
C4_Witness ==
    /\ which = "demo" /\ NoCannedOrShortcut /\ ~HasLeadTrigger
    /\ match_score = 720000
    /\ Len(context_blocks) = 4
    /\ Len(resp.citations) = 3
    /\ resp.actions[1].type = "none"

\* the ranks (1-based positions in context_blocks) of the blocks with this url
RanksOf(url) == {k \in 1..Len(context_blocks) : context_blocks[k].url = url}

\* C5: citation soundness.  Every citation's url is the url of one of the
\* context blocks passed in, and the citations come in the rank order of their
\* blocks.
C5_CitationSoundness ==
    Returned =>
        /\ \A i \in 1..Len(resp.citations) : RanksOf(resp.citations[i].url) # {}
        /\ \A i, j \in 1..Len(resp.citations) :
               i < j => MinOf(RanksOf(resp.citations[i].url)) < MinOf(RanksOf(resp.citations[j].url))

\* C5 witness: a response of the demo assembler with three citations
C5_Witness == which = "demo" /\ Len(resp.citations) = 3 /\ Len(context_blocks) = 4

\* C6: output schema.  The response has exactly the fields text (a string),
\* citations (each with title, url and quote), confidence (in [0,1]) and
\* actions; actions is not empty and its first type is one of none, clarify,
\* handoff, collect_lead, use_tool.
C6_OutputSchema ==
    Returned =>
        /\ DOMAIN resp = {"text", "citations", "confidence", "actions"}
        /\ resp.text \in STRING
        /\ \A i \in 1..Len(resp.citations) :
               /\ {"title", "url", "quote"} \subseteq DOMAIN resp.citations[i]
               /\ resp.citations[i].title \in STRING
               /\ resp.citations[i].url \in STRING
               /\ resp.citations[i].quote \in STRING
        /\ resp.confidence \in 0..1000000
        /\ Len(resp.actions) >= 1
        /\ resp.actions[1].type \in action_types

\* C6 witness: the demo assembler's answer when no context block was found
\* although the confidence is high (confidence fixed to 0.7)
C6_Witness ==
    /\ which = "demo" /\ context_blocks = <<>> /\ match_score = 1000000
    /\ resp.text = no_context_text
    /\ resp.confidence = 700000

shortcut_texts == {feature_text, pricing_text, ecommerce_text, integration_text}

\* C7: the topic shortcut is conditional.  The demo assembler returns a topic
\* shortcut (curated text, confidence 0.9, no citations) never when
\* context_blocks is non-empty and the confidence is >= 0.72; a shortcut has
\* action collect_lead with the lead fields for the pricing bucket and none for
\* the other buckets.
C7_TopicShortcutConditional ==
    (which = "demo" /\ resp.text \in shortcut_texts) =>
        /\ ~(context_blocks # <<>> /\ match_score >= 720000)
        /\ resp.confidence = 900000
        /\ resp.citations = <<>>
        /\ resp.actions[1] = IF resp.text = pricing_text
                             THEN [type |-> "collect_lead", fields |-> <<"name", "email", "company", "use_case">>]
                             ELSE [type |-> "none"]

\* the keyword group of the request that comes first in the order definitional,
\* procedural, capability, generic
Framing ==
    IF AnyIn(<<"what is", "define", "explain">>, Lower(user_message)) THEN "definitional"
    ELSE IF AnyIn(<<"how", "steps", "process">>, Lower(user_message)) THEN "procedural"
    ELSE IF AnyIn(<<"feature", "capability", "can">>, Lower(user_message)) THEN "capability"
    ELSE "generic"

\* how each assembler opens the answer text of a framing
FramingPrefix(assembler, framing) ==
    CASE framing = "definitional" -> "Based on Core DNA's documentation: "
      [] framing = "procedural" ->
            IF assembler = "demo" THEN "According to Core DNA's documentation: "
            ELSE "According to our documentation: "
      [] framing = "capability" ->
            IF assembler = "demo" THEN "Core DNA provides: " ELSE "Core DNA offers: "
      [] OTHER ->
            IF assembler = "demo" THEN "From Core DNA's documentation: "
            ELSE "From our documentation on "

\* C24: intent dispatch.  At confidence >= 0.72, with a non-empty context_blocks
\* and no lead trigger in the request, the framing of the answer text is that
\* of the first matching keyword group in the order definitional (what is /
\* define / explain), procedural (how / steps / process), capability (feature /
\* capability / can), else generic; the action is none and the top blocks are
\* cited.  So every such request holding "explain" or "define" is answered
\* with the definitional framing.
C24_IntentDispatch ==
    (Returned /\ match_score >= 720000 /\ context_blocks # <<>> /\ ~HasLeadTrigger) =>
        /\ StartsWith(resp.text, FramingPrefix(which, Framing))
        /\ resp.actions = <<[type |-> "none"]>>
        /\ CitesTop(Min(3, Len(context_blocks)))

\* C26: confidence pass-through.  In every branch of the demo assembler other
\* than the canned intents and the topic shortcuts the confidence of the
\* response is the confidence passed in; so it is at the no-candidates gate
\* (context_blocks empty, confidence >= 0.55), as in the production assembler.
C26_ConfidencePassThrough ==
    (Returned /\ ~(which = "demo" /\ ~NoCannedOrShortcut)) =>
        resp.confidence = match_score

\* C27: assembler equivalence.  On a request on which no canned intent and no
\* topic shortcut of the demo assembler fires, with any context_blocks and a
\* confidence >= 0.55, the production and the demo assembler return the same
\* first action (type and fields), the same number of citations and the same
\* citation urls in the same order.
C27_AssemblerEquivalence ==
    (Returned /\ NoCannedOrShortcut /\ match_score >= 550000) =>
        /\ resp.actions[1] = demo_assembler(user_message, context_blocks, match_score).actions[1]
        /\ resp.actions[1] = prod_assembler(user_message, context_blocks, match_score).actions[1]
        /\ Len(resp.citations) = Len(demo_assembler(user_message, context_blocks, match_score).citations)
        /\ Len(resp.citations) = Len(prod_assembler(user_message, context_blocks, match_score).citations)
        /\ \A i \in DOMAIN resp.citations :
               /\ resp.citations[i].url = demo_assembler(user_message, context_blocks, match_score).citations[i].url
               /\ resp.citations[i].url = prod_assembler(user_message, context_blocks, match_score).citations[i].url

\* C27 witness: the production assembler answered a request without shortcut
\* keyword at 0.72 on four blocks with three citations, as the demo assembler does
C27_Witness ==
    /\ which = "prod"
    /\ NoCannedOrShortcut
    /\ match_score = 720000
    /\ Len(context_blocks) = 4
    /\ Len(resp.citations) = 3
    /\ Len(demo_assembler(user_message, context_blocks, match_score).citations) = 3

-----------------------------------------------------------------------------
(* Properties of search_content *)

\* C8: relevance cap.  Every relevance_score search_content returns, and every
\* one GET /search reports, lies in [0,1], for every corpus and query, also when
\* a document holds a query token several times or the query repeats a token.
C8_RelevanceCap ==
    /\ \A i \in DOMAIN results :
           results[i].relevance_score >= 0 /\ results[i].relevance_score <= 1000000
    /\ \A i \in DOMAIN search_response :
           search_response[i].relevance_score >= 0 /\ search_response[i].relevance_score <= 1000000

\* the place of the document with this url in the corpus
CorpusPosition(url) == MinOf({k \in DOMAIN scraped_data : scraped_data[k].url = url})

\* C9: ranking order.  The results come in non-increasing order of normalized
\* score, and of two results with equal score the document earlier in the
\* corpus comes first, whatever the order of the tokens in the query.
C9_RankingOrder ==
    \A i, j \in DOMAIN results :
        i < j =>
            /\ results[i].relevance_score >= results[j].relevance_score
            /\ results[i].relevance_score = results[j].relevance_score =>
                   CorpusPosition(results[i].url) < CorpusPosition(results[j].url)

\* the number of distinct tokens of the query among the indexed words of the
\* document with this url
MatchedTokens(url) ==
    Cardinality({w \in {findall_words(Lower(query))[k] : k \in DOMAIN findall_words(Lower(query))} :
                    \E n \in DOMAIN index_words(scraped_data[CorpusPosition(url)]) :
                        index_words(scraped_data[CorpusPosition(url)])[n] = w})

\* C10: overlap ranking.  A result whose document matches more of the query's
\* tokens ranks above a result whose document matches fewer, however often a
\* matched token occurs inside either document.
C10_OverlapRanking ==
    \A i, j \in DOMAIN results :
        MatchedTokens(results[i].url) > MatchedTokens(results[j].url) => i < j

\* title + " " + content of a document, lower-cased
FullText(d) == Lower(d.title \o " " \o d.content)

\* the positions where a word token of s starts, and where one ends
TokenStarts(s) ==
    {i \in 1..Len(s) : IsWordChar(Char(s, i)) /\ (i = 1 \/ ~IsWordChar(Char(s, i - 1)))}
TokenEnds(s) ==
    {j \in 1..Len(s) : IsWordChar(Char(s, j)) /\ (j = Len(s) \/ ~IsWordChar(Char(s, j + 1)))}

\* the word tokens of s: its maximal runs of word characters
TokensOf(s) ==
    LET ends == TokenEnds(s)
    IN {SubSeq(s, i, MinOf({j \in ends : j >= i})) : i \in TokenStarts(s)}

\* the documents of the corpus
Documents == {scraped_data[i] : i \in DOMAIN scraped_data}

C23_ResultSize ==
    /\ Len(results) <= max_results
    /\ \A i, j \in DOMAIN results : results[i].url = results[j].url => i = j
    /\ (TokensOf(Lower(query)) = {} \/ scraped_data = <<>>) => results = <<>>
    /\ \A key \in DOMAIN indexed_content : \E d \in Documents : key \in TokensOf(FullText(d))

\* the documents that hold, among their tokens longer than 3 characters, a
\* token of the query
MatchingDocuments ==
    {d \in Documents :
        \E token \in TokensOf(Lower(query)) : Len(token) > 3 /\ token \in TokensOf(FullText(d))}

\* C23 amended: for max_results >= 0 search_content returns at most max_results
\* candidates; a negative max_results is taken as a slice bound from the end,
\* so that all but the last -max_results ranked candidates are returned.  In
\* every case each url occurs at most once, the result is empty when the query
\* has no token or the corpus is empty, and the index stays as the build made it.
C23_ResultSize_Amended ==
    /\ max_results >= 0 => Len(results) <= max_results
    /\ max_results >= Cardinality(MatchingDocuments) => Len(results) = Cardinality(MatchingDocuments)
    /\ max_results < 0 =>
           Len(results) = IF Cardinality(MatchingDocuments) + max_results > 0
                          THEN Cardinality(MatchingDocuments) + max_results
                          ELSE 0
    /\ \A i, j \in DOMAIN results : results[i].url = results[j].url => i = j
    /\ (TokensOf(Lower(query)) = {} \/ scraped_data = <<>>) => results = <<>>
    /\ \A key \in DOMAIN indexed_content : \E d \in Documents : key \in TokensOf(FullText(d))

\* C23 witness: three documents match the query and max_results = 1 cut the
\* result to one candidate
C23_Witness ==
    /\ started
    /\ max_results = 1
    /\ Cardinality(MatchingDocuments) = 3
    /\ Len(results) = 1

-----------------------------------------------------------------------------
(* Properties of the demo chat path *)

\* POST /chat has been answered
Chatted == chat_request # NoChat /\ which = "demo"

RECURSIVE RelevanceTotal(_)
RelevanceTotal(rs) == IF rs = <<>> THEN 0 ELSE rs[1].relevance_score + RelevanceTotal(Tail(rs))

\* C11: confidence derivation.  The confidence the demo chat path hands to the
\* assembler is min(1.0, mean of relevance_score over the returned candidates),
\* and 0.0 when there are no candidates; hence it lies in [0,1].
C11_ConfidenceDerivation ==
    Chatted =>
        /\ results = <<>> => match_score = 0
        /\ results # <<>> =>
               match_score = IF RelevanceTotal(results) \div Len(results) > 1000000
                             THEN 1000000
                             ELSE RelevanceTotal(results) \div Len(results)
        /\ match_score >= 0 /\ match_score <= 1000000
        /\ resp.confidence >= 0 /\ resp.confidence <= 1000000

\* C11 witness: the mean relevance of the candidates is above 1.0 and the
\* assembler was handed 1.0
C11_Witness ==
    /\ Chatted
    /\ results # <<>>
    /\ RelevanceTotal(results) \div Len(results) > 1000000
    /\ match_score = 1000000

\* the response is a GroundedResponse
ValidGroundedResponse(r) ==
    /\ DOMAIN r = {"text", "citations", "confidence", "actions"}
    /\ r.text \in STRING
    /\ \A i \in 1..Len(r.citations) : {"title", "url", "quote"} \subseteq DOMAIN r.citations[i]
    /\ r.confidence >= 0 /\ r.confidence <= 1000000
    /\ Len(r.actions) >= 1
    /\ r.actions[1].type \in action_types

\* the request has no token (no run of word characters)
ZeroTokens == \A i \in 1..Len(user_message) : ~IsWordChar(Char(user_message, i))

\* retrieval can yield nothing: no document is indexed, or the query has no token
NothingToRetrieve == scraped_data = <<>> \/ ZeroTokens

\* C19 as claimed: with an empty corpus or a zero-token query the answer path
\* returns, for every query, a valid GroundedResponse with action clarify and
\* no citations.
C19_EmptyCorpusOrQuery ==
    (Chatted /\ NothingToRetrieve) =>
        /\ chat_response.status = 200
        /\ ValidGroundedResponse(resp)
        /\ resp.actions[1].type = "clarify"
        /\ resp.citations = <<>>

\* C19 amended: with an empty corpus or a zero-token query the answer path
\* returns without raising a valid GroundedResponse without citations.  A
\* request on which a canned intent or a topic shortcut fires gets that rule's
\* answer (action none, or collect_lead for the pricing bucket); every other
\* request, and so every zero-token request, gets the one clarifying question
\* of a request without candidates: action clarify, confidence 0.0.
C19_EmptyCorpusOrQuery_Amended ==
    (Chatted /\ NothingToRetrieve) =>
        /\ chat_response.status = 200
        /\ chat_response.structured_response = resp
        /\ results = <<>>
        /\ ValidGroundedResponse(resp)
        /\ resp.citations = <<>>
        /\ is_canned_intent(UserLower) =>
               resp.actions[1].type = "none" /\ resp.confidence = 1000000
        /\ (~is_canned_intent(UserLower) /\ is_topic_shortcut(UserLower)) =>
               /\ resp.actions[1].type \in {"none", "collect_lead"}
               /\ resp.confidence = 900000
        /\ ZeroTokens => NoCannedOrShortcut
        /\ NoCannedOrShortcut =>
               resp = [text |-> no_information_text,
                       citations |-> <<>>,
                       confidence |-> 0,
                       actions |-> <<[type |-> "clarify"]>>]

\* C19 witness: a request with tokens on an empty corpus got the clarifying question
C19_Witness ==
    /\ Chatted
    /\ scraped_data = <<>>
    /\ user_message = "quantum computing"
    /\ resp.actions[1].type = "clarify"
    /\ resp.confidence = 0

-----------------------------------------------------------------------------
(* Properties of the index rebuild *)

\* C12: total rebuild.  Once load_scraped_data / create_keyword_index has run
\* on corpus D the index holds exactly the postings derived from D, whatever
\* was indexed before: rebuilding twice with one D gives the index (and so the
\* scores) of building once, and rebuilding with an empty D gives an empty
\* index.
C12_IndexRebuild ==
    (load_pc = "idle" /\ loads >= 1) =>
        /\ indexed_content = create_keyword_index(<<>>, scraped_data)
        /\ scraped_data = <<>> => DOMAIN indexed_content = {}

\* C13: atomic swap.  A search_content call that runs while a rebuild is in
\* flight reads either the complete old corpus and index, or the new corpus
\* with the index as the rebuild leaves it; never the new scraped_data with an
\* old or partly populated indexed_content.
C13_AtomicSwap ==
    observed.in_flight =>
        \/ observed.data = observed.old_data /\ observed.index = observed.old_index
        \/ observed.index = create_keyword_index(observed.old_index, observed.data)

-----------------------------------------------------------------------------
(* Properties of clean_content *)

\* C14: totality.  clean_content returns a non-empty string for every
\* non-empty input string, also for inputs made of boilerplate markers only
\* (only "Content: ", only a "Core dna ..." header line, only an
\* "Implementation Example ..." block).
C14_CleanerTotality ==
    (clean_pc >= 1 /\ clean_input # "") =>
        clean_output \in STRING /\ clean_output # ""

\* C15: idempotent cleaning.  clean_content(clean_content(x)) = clean_content(x)
\* for every x, also when the first result still begins with a list marker or
\* a numbering prefix.
C15_IdempotentCleaning == clean_pc = 2 => clean_twice = clean_output

-----------------------------------------------------------------------------
(* Properties of generate_rag_response and of the production chat endpoint *)

\* generate_rag_response has returned
RagReturned == which = "rag"

\* the enrichment failed: there is no client, or the completion call raised
EnrichmentFailed ==
    RagReturned /\ (~openai_client \/ (completion.called /\ completion.raises))

\* C16: enrichment failure.  Whenever the text-generation client is unavailable
\* or the completion call raises, generate_rag_response returns a response with
\* action handoff, confidence exactly 0.1, no citations and a fixed message,
\* whatever retrieval confidence the chunks give.
C16_EnrichmentFailure ==
    EnrichmentFailed =>
        /\ DOMAIN rag_result = {"text", "citations", "confidence", "actions"}
        /\ Len(rag_result.actions) = 1
        /\ rag_result.actions[1].type = "handoff"
        /\ rag_result.confidence = 100000
        /\ rag_result.citations = <<>>
        /\ rag_result.text =
               IF openai_client
               THEN "I encountered an error while processing your question. Please try again."
               ELSE "OpenAI client not available. Please check configuration."

\* C16 witness: the completion call raised on chunks whose retrieval confidence
\* is 0.9, and the response has confidence 0.1
C16_Witness ==
    /\ EnrichmentFailed
    /\ openai_client
    /\ completion.raises
    /\ context_chunks # <<>>
    /\ 1000000 - ((sum_distance(context_chunks) \div Len(context_chunks)) \div 2) = 900000
    /\ rag_result.confidence = 100000
    /\ rag_result.actions[1].type = "handoff"

\* the service answered, and its answer is not a GroundedResponse: no content,
\* not JSON, not a JSON object, or an object with missing or malformed fields
ServiceOutputInvalid ==
    /\ completion.called
    /\ ~completion.raises
    /\ \/ ~completion.has_content
       \/ json_loads(Strip(completion.content)).kind # "dict"
       \/ ~ValidGroundedResponse(json_loads(Strip(completion.content)).value)

\* the context blocks of the chunks, as the assembler takes them
ChunkBlocks ==
    [i \in 1..Min(3, Len(context_chunks)) |->
        Block(metadata_title(context_chunks[i].metadata),
              context_chunks[i].metadata.source_url,
              context_chunks[i].text)]

\* the templated response of the assembler for the request and the chunks
Templated ==
    prod_assembler(user_message, ChunkBlocks,
                   Max(100000, 1000000 - ((sum_distance(context_chunks) \div Len(context_chunks)) \div 2)))

\* C17: enrichment output is validated.  Every response generate_rag_response
\* returns is a GroundedResponse (text, citations of title/url/quote, confidence
\* in [0,1], at least one action of a valid type); when the output of the
\* service is not one (not JSON, or JSON with missing or malformed fields) the
\* text returned is the templated text of the assembler and the action follows
\* the assembler's confidence policy, never the raw output of the service.
C17_EnrichmentValidated ==
    RagReturned =>
        /\ ValidGroundedResponse(rag_result)
        /\ ServiceOutputInvalid =>
               /\ rag_result.text = Templated.text
               /\ rag_result.actions[1].type = Templated.actions[1].type

\* the production chat endpoint has answered
ProdChatted == which = "prod_chat"

\* C18: no request ends ungracefully.  Every chat request is answered with a
\* GroundedResponse (status 200), and when a step of the request failed the
\* response has action handoff; the endpoint surfaces no error status.
C18_NoUngracefulEnd ==
    ProdChatted =>
        /\ chat_response.status = 200
        /\ ValidGroundedResponse(chat_response.structured_response)
        /\ ~vector_store => chat_response.structured_response.actions[1].type = "handoff"

\* the useful sentences clean_content finds in the excerpt
Useful == useful_sentences(strip_boilerplate(clean_input))

\* the informative vocabulary
Vocabulary == {"provides", "offers", "enables", "helps", "allows", "supports", "platform",
               "solution", "business", "customer", "ecommerce", "commerce", "management",
               "integration", "feature"}

\* C25: useful-sentence output.  Whenever clean_content finds a useful
\* sentence, its result is the first 3 (or fewer) useful sentences in their
\* order, joined, and ends with a period; a useful sentence is longer than 30
\* characters, is no all-caps heading, does not end on "Core dna" and holds a
\* word of the informative vocabulary.
C25_UsefulSentences ==
    (clean_pc >= 1 /\ clean_input # "" /\ Useful # <<>>) =>
        /\ clean_output =
               CASE Len(Useful) = 1 -> Useful[1] \o "."
                 [] Len(Useful) = 2 -> Useful[1] \o ". " \o Useful[2] \o "."
                 [] OTHER -> Useful[1] \o ". " \o Useful[2] \o ". " \o Useful[3] \o "."
        /\ EndsWith(clean_output, ".")
        /\ \A i \in DOMAIN Useful :
               /\ Len(Useful[i]) > 30
               /\ \E k \in 1..Len(Useful[i]) : ~IsUpper(Char(Useful[i], k)) /\ ~IsSpace(Char(Useful[i], k))
               /\ ~EndsWith(Useful[i], "Core dna")
               /\ \E word \in Vocabulary : Contains(Lower(Useful[i]), word)

\* C25 witness: four useful sentences were found and the result is the first three
C25_Witness ==
    /\ clean_pc >= 1
    /\ Len(Useful) = 4
    /\ clean_output = "The platform provides tools for every business owner. "
                      \o "It offers a complete solution for online stores. "
                      \o "Customer management supports every team."

-----------------------------------------------------------------------------
(* Properties of generate_intelligent_response *)

\* generate_intelligent_response has returned
Generated == which = "intelligent"

\* the mean relevance_score of the results (of a non-empty list)
MeanRelevance == RelevanceTotal(results) \div Len(results)

\* C21: generate_intelligent_response returns, for every non-empty result list,
\* the four fields text, citations, confidence and a non-empty actions, with
\* confidence = min(1.0, mean relevance_score); when that mean is below 0.55
\* the confidence is below 0.55, the action is clarify and nothing is cited;
\* for an empty result list it returns clarify with confidence 0.1.
C21_IntelligentResponse ==
    Generated =>
        /\ DOMAIN resp = {"text", "citations", "confidence", "actions"}
        /\ resp.text \in STRING
        /\ Len(resp.citations) >= 0
        /\ Len(resp.actions) >= 1
        /\ results # <<>> =>
               resp.confidence = IF MeanRelevance > 1000000 THEN 1000000 ELSE MeanRelevance
        /\ (results # <<>> /\ MeanRelevance < 550000) =>
               /\ resp.confidence < 550000
               /\ resp.actions[1].type = "clarify"
               /\ resp.citations = <<>>
        /\ results = <<>> =>
               resp.actions[1].type = "clarify" /\ resp.confidence = 100000

\* C21 witness: two results with mean relevance 0.51 were answered with a
\* clarifying question, confidence 0.51, no citations
C21_Witness ==
    /\ Generated
    /\ Len(results) = 2
    /\ MeanRelevance = 510000
    /\ resp.confidence = 510000
    /\ resp.actions[1].type = "clarify"
    /\ resp.citations = <<>>

-----------------------------------------------------------------------------
(* src/scraper/web_scraper.py: CoreDNAScraper *)

online_vars == <<assembler_vars, search_vars, chat_vars, load_vars, clean_vars, rag_vars>>

\* none of the servers has handled anything
OnlineIdle ==
    /\ which = "none"
    /\ user_message = ""
    /\ context_blocks = <<>>
    /\ match_score = 0
    /\ resp = NoResponse
    /\ started = FALSE
    /\ scraped_data = <<>>
    /\ indexed_content = <<>>
    /\ query = ""
    /\ max_results = 0
    /\ results = <<>>
    /\ search_response = <<>>
    /\ ChatIdle
    /\ LoadIdle
    /\ CleanIdle
    /\ RagIdle

\* settings.coredna_base_url
base_url == "https://www.coredna.com"

\* urlparse(url).netloc: what stands between "://" and the next "/", "?" or "#"
netloc(url) ==
    LET p == Find(url, "://", 1)
        rest == Drop(url, p + 2)
        stops == {i \in 1..Len(rest) : Char(rest, i) \in {"/", "?", "#"}}
    IN IF p = 0 THEN ""
       ELSE IF stops = {} THEN rest
       ELSE SubSeq(rest, 1, MinOf(stops) - 1)

skip_patterns == <<"/cdn-cgi/", "/wp-admin/", "/wp-content/", "/wp-includes/",
                   ".pdf", ".jpg", ".jpeg", ".png", ".gif", ".css", ".js",
                   ".xml", ".txt", ".zip", "/feed/", "/rss/", "/atom/",
                   "#", "mailto:", "tel:", "javascript:", "/search?">>

\* CoreDNAScraper.is_valid_url
is_valid_url(url) ==
    /\ netloc(url) = netloc(base_url)
    /\ ~AnyIn(skip_patterns, Lower(url))

\* absolute_url.split('#')[0]
remove_fragment(url) == split_on(url, "#")[1]

\* CoreDNAScraper.extract_links: hrefs are the page's links made absolute (urljoin)
extract_links(hrefs, visited) ==
    LET absolute == [i \in 1..Len(hrefs) |-> remove_fragment(hrefs[i])]
        wanted(u) == is_valid_url(u) /\ u \notin visited
    IN SelectSeq(absolute, wanted)

\* the ScrapedPage of extract_content, reduced to its url and its links
ScrapedPage(url, links) == [url |-> url, links |-> links]

\* the common pages of discover_initial_urls
all_common_pages == <<"/sitemap.xml", "/sitemap", "/blog", "/blogs", "/news",
                      "/products", "/services", "/solutions", "/about",
                      "/contact", "/pricing", "/platform", "/resources">>

\* how many of the common pages the model tries
MaxCommonPages == 2

common_pages == SliceTo(all_common_pages, MaxCommonPages)

\* CoreDNAScraper.discover_initial_urls on the site web
discover_initial_urls(web) ==
    {base_url}
        \cup {base_url \o common_pages[i] : i \in 1..Len(common_pages)}
        \cup {u \in web.sitemap : is_valid_url(u)}

\* the while condition of scrape_all_pages, without the page limit
loop_condition_unlimited(queue, visited, limit) == queue # {}

\* the while condition of scrape_all_pages
loop_condition(queue, visited, limit) == queue # {} /\ Cardinality(visited) < limit

\* get_page_content(url) returned a page (not None)
Served(web, url) == url \in DOMAIN web.pages

-----------------------------------------------------------------------------
(* The crawl: scrape_all_pages step by step, on a handful of web sites *)

\* the largest max_pages tried and the calls of scrape_all_pages on one scraper
MaxPages == 5
MaxCalls == 2

Home == base_url
Blog == base_url \o "/blog"
Pricing == base_url \o "/pricing"
SitemapPage == base_url \o "/sitemap"
Elsewhere == "https://example.org/blog"

\* a site that serves nothing
DeadSite == [pages |-> NoPages, sitemap |-> {}]

\* a home page that links to itself only
SelfSite == [pages |-> (Home :> <<Home, Home \o "#top", "mailto:info@coredna.com">>), sitemap |-> {}]

\* three pages in a cycle
CycleSite ==
    [pages |-> (Home :> <<Blog>>) @@ (Blog :> <<Pricing, Pricing>>) @@ (Pricing :> <<Home>>),
     sitemap |-> {}]

\* three pages that link to each other and to things that are not crawled
DenseLinks == <<Home, Blog, Pricing, Blog \o "#comments", base_url \o "/brochure.pdf", Elsewhere>>
DenseSite ==
    [pages |-> (Home :> DenseLinks) @@ (Blog :> DenseLinks) @@ (Pricing :> DenseLinks),
     sitemap |-> {}]

\* pages that are found through sitemap.xml only
SitemapSite ==
    [pages |-> (Home :> <<>>) @@ (Blog :> <<Home>>) @@ (Pricing :> <<>>),
     sitemap |-> {Blog, Pricing, base_url \o "/brochure.pdf", Elsewhere}]

\* a chain of pages, each one linking to the next
Page(n) == base_url \o "/p" \o ToString(n)
ChainSite ==
    [pages |-> (Home :> <<Page(1)>>) @@ (SitemapPage :> <<Blog, Home>>)
                   @@ [u \in {Page(n) : n \in 1..MaxPages} |->
                          <<Page(1 + CHOOSE n \in 1..MaxPages : Page(n) = u)>>],
     sitemap |-> {}]

Sites == {DeadSite, SelfSite, CycleSite, DenseSite, SitemapSite, ChainSite}

CrawlInit ==
    /\ OnlineIdle
    /\ ChunkIdle
    /\ RetrieverIdle
    /\ crawl_pc = "idle"
    /\ site \in Sites
    /\ max_pages \in 1..MaxPages
    /\ to_visit = {}
    /\ visited_urls = {}
    /\ scraped_pages = <<>>
    /\ fetch_log = <<>>
    /\ calls = 0

\* scrape_all_pages is called: self.to_visit = self.discover_initial_urls()
ScrapeAllPages ==
    /\ crawl_pc \in {"idle", "returned"}
    /\ calls < MaxCalls
    /\ calls' = calls + 1
    /\ crawl_pc' = "crawling"
    /\ to_visit' = discover_initial_urls(site)
    /\ UNCHANGED <<site, max_pages, visited_urls, scraped_pages, fetch_log>>
    /\ UNCHANGED <<online_vars, chunk_vars, retriever_vars>>

\* an iteration that pops a url that was visited already: continue
CrawlSkip ==
    /\ crawl_pc = "crawling"
    /\ loop_condition(to_visit, visited_urls, max_pages)
    /\ \E current_url \in to_visit :
           /\ current_url \in visited_urls
           /\ to_visit' = to_visit \ {current_url}
    /\ UNCHANGED <<crawl_pc, site, max_pages, visited_urls, scraped_pages, fetch_log, calls>>
    /\ UNCHANGED <<online_vars, chunk_vars, retriever_vars>>

\* an iteration whose get_page_content returns None: continue
CrawlFetchFailed ==
    /\ crawl_pc = "crawling"
    /\ loop_condition(to_visit, visited_urls, max_pages)
    /\ \E current_url \in to_visit :
           /\ current_url \notin visited_urls
           /\ ~Served(site, current_url)
           /\ to_visit' = to_visit \ {current_url}
           /\ visited_urls' = visited_urls \cup {current_url}
           /\ fetch_log' = Append(fetch_log, current_url)
    /\ UNCHANGED <<crawl_pc, site, max_pages, scraped_pages, calls>>
    /\ UNCHANGED <<online_vars, chunk_vars, retriever_vars>>

\* an iteration that scrapes a page and queues its links
CrawlScrape ==
    /\ crawl_pc = "crawling"
    /\ loop_condition(to_visit, visited_urls, max_pages)
    /\ \E current_url \in to_visit :
           /\ current_url \notin visited_urls
           /\ Served(site, current_url)
           /\ visited_urls' = visited_urls \cup {current_url}
           /\ fetch_log' = Append(fetch_log, current_url)
           /\ LET scraped_page == ScrapedPage(current_url,
                                      extract_links(site.pages[current_url], visited_urls'))
              IN /\ scraped_pages' = Append(scraped_pages, scraped_page)
                 /\ to_visit' = (to_visit \ {current_url})
                        \cup {scraped_page.links[i] : i \in 1..Len(scraped_page.links)}
    /\ UNCHANGED <<crawl_pc, site, max_pages, calls>>
    /\ UNCHANGED <<online_vars, chunk_vars, retriever_vars>>

\* the while condition is false: return self.scraped_data
CrawlReturn ==
    /\ crawl_pc = "crawling"
    /\ ~loop_condition(to_visit, visited_urls, max_pages)
    /\ crawl_pc' = "returned"
    /\ UNCHANGED <<site, max_pages, to_visit, visited_urls, scraped_pages, fetch_log, calls>>
    /\ UNCHANGED <<online_vars, chunk_vars, retriever_vars>>

\* one step of the running loop
CrawlLoop == CrawlSkip \/ CrawlFetchFailed \/ CrawlScrape \/ CrawlReturn

CrawlNext == ScrapeAllPages \/ CrawlSkip \/ CrawlFetchFailed \/ CrawlScrape \/ CrawlReturn

CrawlSpec == CrawlInit /\ [][CrawlNext]_vars

\* every fetch returns and the loop is sequential code: a running loop takes its next step
CrawlFairSpec == CrawlSpec /\ WF_vars(CrawlLoop)

-----------------------------------------------------------------------------
(* Properties of scrape_all_pages *)

\* how many times get_page_content was called with url
Fetches(url) == Cardinality({i \in 1..Len(fetch_log) : fetch_log[i] = url})

\* an iteration removes a visited url from to_visit or adds one url to visited_urls
IterationProgress ==
    (crawl_pc = "crawling" /\ crawl_pc' = "crawling") =>
        \/ \E u \in to_visit \cap visited_urls :
               to_visit' = to_visit \ {u} /\ visited_urls' = visited_urls
        \/ \E u \in to_visit \ visited_urls : visited_urls' = visited_urls \cup {u}

-----------------------------------------------------------------------------
(* src/scraper/content_processor.py: ContentProcessor.create_text_chunks *)

\* where the words of s begin and end: at a change between whitespace and the rest
WordStarts(s) == {i \in 1..Len(s) : ~IsSpace(Char(s, i)) /\ (i = 1 \/ IsSpace(Char(s, i - 1)))}
WordEnds(s) == {i \in 1..Len(s) : ~IsSpace(Char(s, i)) /\ (i = Len(s) \/ IsSpace(Char(s, i + 1)))}

\* the k-th smallest member of a set of numbers
Nth(S, k) == CHOOSE x \in S : Cardinality({y \in S : y <= x}) = k

\* content.split(): the words between runs of whitespace
split_whitespace(s) ==
    [k \in 1..Cardinality(WordStarts(s)) |-> SubSeq(s, Nth(WordStarts(s), k), Nth(WordEnds(s), k))]

\* a ProcessedDocument; its metadata is reduced to source_url
ProcessedDocument(url, title, content) ==
    [url |-> url, title |-> title, content |-> content, metadata |-> [source_url |-> url]]

\* chunk_size_words and overlap_words: a rough estimate of 5 chars per word
chunk_size_words(size) == size \div 5
overlap_words(lap) == lap \div 5

\* the chunk of a document that is not split
single_chunk(doc) ==
    [text |-> doc.content,
     metadata |-> [source_url |-> doc.metadata.source_url, chunk_id |-> 0,
                   total_chunks |-> 1, title |-> doc.title]]

\* end_idx of the chunk of words that starts at start
end_of_chunk(words, start, size) == Min(start + chunk_size_words(size), Len(words))

\* the chunk the while loop appends for words[start:end_idx]
split_chunk(doc, words, id, start, size) ==
    LET end_idx == end_of_chunk(words, start, size)
    IN [text |-> join(" ", SubSeq(words, start + 1, end_idx)),
        metadata |-> [source_url |-> doc.metadata.source_url, chunk_id |-> id,
                      title |-> doc.title, chunk_start |-> start, chunk_end |-> end_idx]]

\* start_idx = end_idx - overlap_words
next_start(words, start, size, lap) == end_of_chunk(words, start, size) - overlap_words(lap)

\* url_chunk_counts[url]
url_chunk_count(chunk_list, url) ==
    Cardinality({i \in 1..Len(chunk_list) : chunk_list[i].metadata.source_url = url})

\* chunk['metadata']['total_chunks'] = url_chunk_counts[url], for every chunk
with_total_chunks(chunk_list) ==
    [i \in 1..Len(chunk_list) |->
        LET m == chunk_list[i].metadata
            count == url_chunk_count(chunk_list, m.source_url)
        IN [text |-> chunk_list[i].text,
            metadata |-> [k \in DOMAIN m \cup {"total_chunks"} |->
                             IF k = "total_chunks" THEN count ELSE m[k]]]]

-----------------------------------------------------------------------------
(* create_text_chunks step by step, on short documents *)

\* the documents of one ContentProcessor, and the iterations of the while loop
\* after which the model stops following it
MaxProcessedDocs == 2
MaxIterations == 12

ProcessedPool ==
    {ProcessedDocument(Home, "Home", "Core DNA"),
     ProcessedDocument(Blog, "Blog", "one two three four five six"),
     ProcessedDocument(Pricing, "Pricing", "a1 b2 c3 d4 e5 f6 g7 h8 i9"),
     ProcessedDocument(Blog, "Blog again", "unbreakablelongword"),
     ProcessedDocument(SitemapPage, "Blank", "                    ")}

ProcessedLists ==
    UNION {[1..n -> ProcessedPool] : n \in 0..MaxProcessedDocs}

\* (max_chunk_size, overlap) with 0 <= overlap < max_chunk_size
ChunkSizes == {<<1000, 200>>, <<20, 0>>, <<20, 10>>, <<15, 10>>, <<10, 5>>, <<10, 9>>,
               <<9, 5>>, <<4, 0>>}

ChunkInit ==
    /\ OnlineIdle
    /\ CrawlIdle
    /\ RetrieverIdle
    /\ chunk_pc = "idle"
    /\ processed_docs \in ProcessedLists
    /\ \E sizes \in ChunkSizes : max_chunk_size = sizes[1] /\ overlap = sizes[2]
    /\ text_chunks = <<>>
    /\ doc_idx = 1
    /\ doc_words = <<>>
    /\ chunk_id = 0
    /\ start_idx = 0
    /\ iterations = 0

\* create_text_chunks is called: chunks = []
CreateTextChunks ==
    /\ chunk_pc = "idle"
    /\ chunk_pc' = "docs"
    /\ UNCHANGED <<processed_docs, max_chunk_size, overlap, text_chunks, doc_idx, doc_words,
                   chunk_id, start_idx, iterations>>
    /\ UNCHANGED <<online_vars, crawl_vars, retriever_vars>>

\* a document no longer than max_chunk_size is kept as a single chunk
ChunkWhole ==
    /\ chunk_pc = "docs"
    /\ doc_idx <= Len(processed_docs)
    /\ Len(processed_docs[doc_idx].content) <= max_chunk_size
    /\ text_chunks' = Append(text_chunks, single_chunk(processed_docs[doc_idx]))
    /\ doc_idx' = doc_idx + 1
    /\ UNCHANGED <<chunk_pc, processed_docs, max_chunk_size, overlap, doc_words, chunk_id,
                   start_idx, iterations>>
    /\ UNCHANGED <<online_vars, crawl_vars, retriever_vars>>

\* a longer document: words = content.split(), chunk_id = 0, start_idx = 0, and the
\* while condition is tested
SplitBegin ==
    /\ chunk_pc = "docs"
    /\ doc_idx <= Len(processed_docs)
    /\ Len(processed_docs[doc_idx].content) > max_chunk_size
    /\ chunk_id' = 0
    /\ start_idx' = 0
    /\ iterations' = 0
    /\ doc_words' = split_whitespace(processed_docs[doc_idx].content)
    /\ chunk_pc' = IF 0 < Len(doc_words') THEN "split" ELSE "docs"
    /\ doc_idx' = IF chunk_pc' = "split" THEN doc_idx ELSE doc_idx + 1
    /\ UNCHANGED <<processed_docs, max_chunk_size, overlap, text_chunks>>
    /\ UNCHANGED <<online_vars, crawl_vars, retriever_vars>>

\* one iteration of the while loop, up to the test that decides about the next one
SplitStep ==
    /\ chunk_pc = "split"
    /\ iterations < MaxIterations
    /\ text_chunks' = Append(text_chunks,
                           split_chunk(processed_docs[doc_idx], doc_words, chunk_id, start_idx,
                                       max_chunk_size))
    /\ start_idx' = next_start(doc_words, start_idx, max_chunk_size, overlap)
    /\ chunk_id' = chunk_id + 1
    /\ iterations' = iterations + 1
    /\ chunk_pc' = IF \/ end_of_chunk(doc_words, start_idx, max_chunk_size) >= Len(doc_words)
                      \/ ~(start_idx' < Len(doc_words))
                   THEN "docs" ELSE "split"
    /\ doc_idx' = IF chunk_pc' = "split" THEN doc_idx ELSE doc_idx + 1
    /\ UNCHANGED <<processed_docs, max_chunk_size, overlap, doc_words>>
    /\ UNCHANGED <<online_vars, crawl_vars, retriever_vars>>

\* after the last document: total_chunks is set on every chunk, return chunks
FinishChunks ==
    /\ chunk_pc = "docs"
    /\ doc_idx > Len(processed_docs)
    /\ text_chunks' = with_total_chunks(text_chunks)
    /\ chunk_pc' = "done"
    /\ UNCHANGED <<processed_docs, max_chunk_size, overlap, doc_idx, doc_words, chunk_id,
                   start_idx, iterations>>
    /\ UNCHANGED <<online_vars, crawl_vars, retriever_vars>>

ChunkNext == CreateTextChunks \/ ChunkWhole \/ SplitBegin \/ SplitStep \/ FinishChunks

ChunkSpec == ChunkInit /\ [][ChunkNext]_vars

\* create_text_chunks is sequential code: it takes its next step
ChunkFairSpec == ChunkSpec /\ WF_vars(ChunkNext)

-----------------------------------------------------------------------------
(* Properties of create_text_chunks *)

\* the documents that create_text_chunks splits
IsSplit(doc) == Len(doc.content) > max_chunk_size

\* the documents that get a chunk: all but the split ones without a word
MakesChunks(doc) == IsSplit(doc) => split_whitespace(doc.content) # <<>>

\* the chunks made from the k-th document (one that gets a chunk), in order
ChunksOfDoc(k) ==
    LET made_before(j) ==
            Cardinality({i \in 1..Len(text_chunks) :
                            /\ text_chunks[i].metadata.chunk_id = 0
                            /\ i <= j})
        rank == Cardinality({j \in 1..k : MakesChunks(processed_docs[j])})
    IN SelectSeq([i \in 1..Len(text_chunks) |-> [at |-> i, chunk |-> text_chunks[i]]],
                 LAMBDA e : made_before(e.at) = rank)

\* the chunks of the k-th document are numbered 0..n-1, cover all its words,
\* and each starts overlap // 5 words before the end of the one before it
SplitStructure(k) ==
    LET words == split_whitespace(processed_docs[k].content)
        mine == ChunksOfDoc(k)
    IN /\ \A j \in 1..Len(mine) : mine[j].chunk.metadata.chunk_id = j - 1
       /\ \A w \in 1..Len(words) :
              \E j \in 1..Len(mine) :
                  /\ mine[j].chunk.metadata.chunk_start < w
                  /\ w <= mine[j].chunk.metadata.chunk_end
       /\ \A j \in 1..Len(mine) :
              mine[j].chunk.text =
                  join(" ", SubSeq(words, mine[j].chunk.metadata.chunk_start + 1,
                                   mine[j].chunk.metadata.chunk_end))
       /\ \A j \in 1..(Len(mine) - 1) :
              mine[j + 1].chunk.metadata.chunk_start =
                  mine[j].chunk.metadata.chunk_end - (overlap \div 5)

\* every chunk's total_chunks is the number of chunks with its source_url
TotalChunksRight ==
    \A i \in 1..Len(text_chunks) :
        text_chunks[i].metadata.total_chunks =
            Cardinality({j \in 1..Len(text_chunks) :
                text_chunks[j].metadata.source_url = text_chunks[i].metadata.source_url})

\* what C29 says about the chunks that create_text_chunks returned
ChunkStructure ==
    chunk_pc = "done" =>
        /\ TotalChunksRight
        /\ \A k \in 1..Len(processed_docs) :
               IsSplit(processed_docs[k])
                   /\ split_whitespace(processed_docs[k].content) # <<>>
                   => SplitStructure(k)

-----------------------------------------------------------------------------
(* src/rag/retriever.py: DocumentRetriever *)

\* dict.get(key, default)
Get(dict, key, default) == IF key \in DOMAIN dict THEN dict[key] ELSE default

\* DocumentRetriever.retrieve_relevant_docs: the results whose similarity_score
\* (1.0 - distance) is at least min_relevance_score, with that score added
retrieve_relevant_docs(query_results, min_relevance_score) ==
    LET scored == [i \in 1..Len(query_results) |->
                      [k \in DOMAIN query_results[i] \cup {"similarity_score"} |->
                          IF k = "similarity_score" THEN 1000000 - query_results[i].distance
                          ELSE query_results[i][k]]]
    IN SelectSeq(scored, LAMBDA r : r.similarity_score >= min_relevance_score)

\* f"[Source: {title} - {source_url}]\n{text}\n"
doc_text(doc) ==
    LET metadata == Get(doc, "metadata", EmptyDict)
    IN "[Source: " \o Get(metadata, "title", "Unknown") \o " - "
           \o Get(metadata, "source_url", "Unknown") \o "]\n" \o doc.text \o "\n"

\* the for loop of get_document_context from the document docs[i] on: the
\* doc_text of every document before the first one that would exceed max_length
RECURSIVE context_parts(_, _, _, _)
context_parts(docs, i, current_length, max_length) ==
    IF i > Len(docs) THEN <<>>
    ELSE IF current_length + Len(doc_text(docs[i])) > max_length THEN <<>>
    ELSE <<doc_text(docs[i])>>
             \o context_parts(docs, i + 1, current_length + Len(doc_text(docs[i])), max_length)

\* DocumentRetriever.get_document_context, given what the vector store returns
get_document_context(query_results, max_length) ==
    LET docs == retrieve_relevant_docs(query_results, 0)
    IN IF docs = <<>> THEN ""
       ELSE join("\n---\n", context_parts(docs, 1, 0, max_length))

-----------------------------------------------------------------------------
(* get_document_context on a few stored chunks *)

\* the most results the vector store returns in the model
MaxStoreResults == 3

StoredChunk(text, metadata, distance) == [text |-> text, metadata |-> metadata, distance |-> distance]

StorePool ==
    {StoredChunk("Core DNA is a digital experience platform.",
                 [title |-> "Platform", source_url |-> Home], 200000),
     StoredChunk("Plans start with a free trial.", [source_url |-> Pricing], 450000),
     StoredChunk("Orphan text without metadata.", EmptyDict, 700000),
     StoredChunk("Far away.", [title |-> "Far", source_url |-> Blog], 1200000),
     StoredChunk(Repeat("0123456789", 95) \o "12345", [title |-> "Guide", source_url |-> Home],
                 300000)}

StoreResults == UNION {[1..n -> StorePool] : n \in 0..MaxStoreResults}

\* max_context_length: small ones, chat.py's 2000 and the default 4000
ContextLengths == {0, 60, 100, 150, 180, 2000, 4000}

RetrieverInit ==
    /\ OnlineIdle
    /\ CrawlIdle
    /\ ChunkIdle
    /\ store_results \in StoreResults
    /\ max_context_length \in ContextLengths
    /\ context_built = FALSE
    /\ document_context = ""

\* retriever.get_document_context(query, max_context_length)
GetDocumentContext ==
    /\ ~context_built
    /\ context_built' = TRUE
    /\ document_context' = get_document_context(store_results, max_context_length)
    /\ UNCHANGED <<store_results, max_context_length>>
    /\ UNCHANGED <<online_vars, crawl_vars, chunk_vars>>

RetrieverNext == GetDocumentContext

RetrieverSpec == RetrieverInit /\ [][RetrieverNext]_vars

-----------------------------------------------------------------------------
(* Properties of get_document_context *)

\* C30: the string get_document_context returns is never longer than
\* max_context_length characters, separators included.
C30_ContextLengthBound ==
    context_built => Len(document_context) <= max_context_length


=============================================================================
